---------------------------- MODULE Spec2Model ----------------------------
(***************************************************************************)
(* A model of the MAVLink WebSocket-to-TCP/UDP bridge (package cli, type   *)
(* Bridge): the upstream read loop with its circuit breaker, the TCP       *)
(* accept loop, one forwarder per TCP client, the UDP receive loop, and    *)
(* Start/Stop.  Each goroutine is a task with a program counter; one       *)
(* action is one step of one goroutine between two points where another    *)
(* goroutine can observe or change shared state.                           *)
(***************************************************************************)
EXTENDS Integers, Sequences, FiniteSets, TLC

(* ------------------------------ bounds -------------------------------- *)
\* seconds the model's clock runs for
MaxTime == 40
\* seconds per clock step
TickStep == 10
\* upstream faults (dropped sessions, refused dials) the environment injects
MaxFaults == 4
\* messages the upstream delivers
MaxMsgs == 1
\* TCP connections the environment opens
MaxConns == 2
\* bytes one TCP client sends
MaxBytes == 3
\* bytes one TCP client sends while the upstream delivers messages
BcBytes == 1
\* datagrams the environment sends
MaxDgrams == 2
\* calls of Stop()
MaxStops == 2
\* upstream faults while TCP clients forward
FwdFaults == 2
\* upstream faults before the upstream stays reachable
LiveFaults == 4
\* upstream faults, TCP connections and bytes per TCP client while Stop()
\* runs against a reconnect and a forwarder
StopFaults == 1
StopConns == 1
StopBytes == 1
\* datagrams while Stop() runs against the UDP loop and a broadcast
StopDgrams == 1
\* calls of Stop() against the TCP and UDP tasks
StopCalls == 2
\* upstream faults, bytes per TCP client and datagrams while TCP clients,
\* the UDP loop and a reconnect contend for the upstream
SendFaults == 2
SendBytes == 1
SendDgrams == 1
DgramFaults == 1
DgramCount == 2
(* The command line: the clock runs to MaxClock minutes.                  *)
MaxClock == 2
(* Ordering: messages from the upstream and bytes per TCP client.         *)
FifoMsgs == 2
FifoBytes == 2

(* ------------------------- program constants -------------------------- *)
failureThreshold == 3
circuitOpenPeriod == 30
reconnectBackoff == 2
bufSize == 4096
(* cmd/cli/main.go and internal/auth/token_store.go; times in minutes.    *)
defaultTCP == "127.0.0.1:5169"
tokenBuffer == 5
tokenLifetime == 1440

Conns == 1..MaxConns
Keys == {"a", "b"}
Addrs == {"e", "f"}
Payloads == {<<1>>, <<1, 2>>}
NoConn == 0
(* Datagram payloads: one that fits the receive buffer and one that is    *)
(* one byte longer than it.                                               *)
Datagrams == {<<1>>, [i \in 1..(bufSize + 1) |-> 1]}

VARIABLES
  \* configuration
  cfgTCP, cfgUDP,
  \* environment
  now, horizon, faults, msgs, stopLimit, connLimit, byteLimit, sessOpen, sessBroken, nextSess,
  connState, connKey, peerClosed, tcpIn, bytesSent, dgrams,
  \* Bridge fields
  wsConn, wsMutex, tcpListener, tcpClients, tcpMutex, udpConn, udpClients,
  udpMutex, ctxDone, wg, circuitState, failureCount, lastFailureTime, circuitOpenUntil,
  \* goroutines: program counters and locals
  mainPc, stops, crashed,
  readerPc, rtype, rdata, rdeadline,
  acceptPc, aconn,
  hpc, hbuf, hn, herr,
  udpPc, ubuf, uaddr,
  \* history
  gateOp, gateFrom, gateCnt, attempts,
  bcData, bcTcpSnap, bcTcpW, bcUdpSnap, bcUdpW, bcGone, bcLog,
  readLog, sentLog, udpSent, udgram,
  \* the command line (cmd/cli/main.go): inputs, token file, clock
  flagTcp, envTcp, doLogin, doLogout, cfgApi, tokenFile, cliNow,
  \* main: position and locals
  cliPc, tcpListen, storedToken, accessToken, authRan,
  \* device-code polling (internal/auth/device_code.go)
  deviceResp, pollNow, pollCancelled, pollPc, interval, expires, ticker,
  pollToken, pollErr, lastResp, pollCount,
  \* the device picker (internal/ui/device_picker.go)
  devices, pickModel, pickPc, pickQuit, pickKeys, pickResult

limits == <<horizon, stopLimit, connLimit, byteLimit>>
envVars == <<now, limits, faults, msgs, sessBroken, nextSess, peerClosed, tcpIn,
             bytesSent, dgrams, connKey>>
gateVars == <<circuitState, failureCount, lastFailureTime, circuitOpenUntil>>
gateHist == <<gateOp, gateFrom, gateCnt, attempts>>
bcHist == <<bcData, bcTcpSnap, bcTcpW, bcUdpSnap, bcUdpW, bcGone, bcLog>>
fwdHist == <<readLog, sentLog, udpSent, udgram>>
readerLocals == <<rtype, rdata, rdeadline>>
mainVars == <<mainPc, stops>>
tcpTaskVars == <<acceptPc, aconn, hpc, hbuf, hn, herr>>
udpTaskVars == <<udpPc, ubuf, uaddr>>
cliVars == <<flagTcp, envTcp, doLogin, doLogout, cfgApi, tokenFile, cliNow,
             cliPc, tcpListen, storedToken, accessToken, authRan>>
pollVars == <<deviceResp, pollNow, pollCancelled, pollPc, interval, expires,
              ticker, pollToken, pollErr, lastResp, pollCount>>
pickVars == <<devices, pickModel, pickPc, pickQuit, pickKeys, pickResult>>
uiVars == <<pollVars, pickVars>>
cfgVars == <<cfgTCP, cfgUDP, cliVars, uiVars>>
(* The configuration and the two registry locks.                          *)
cfgLocks == <<cfgVars, tcpMutex, udpMutex>>

vars == <<cfgLocks, envVars, sessOpen, connState, wsConn, wsMutex, tcpListener,
          tcpClients, udpConn, udpClients, ctxDone, wg, gateVars, mainVars,
          crashed, readerPc, readerLocals, tcpTaskVars, udpTaskVars,
          gateHist, bcHist, fwdHist>>

(* Everything but the configuration and the command line.                *)
relayVars == <<tcpMutex, udpMutex, envVars, sessOpen, connState, wsConn,
               wsMutex, tcpListener,
               tcpClients, udpConn, udpClients, ctxDone, wg, gateVars,
               mainVars, crashed, readerPc, readerLocals, tcpTaskVars,
               udpTaskVars, gateHist, bcHist, fwdHist>>

Min(a, b) == IF a < b THEN a ELSE b

(* The connections registered in the TCP client map. *)
Registered == {tcpClients[k] : k \in Keys} \ {NoConn}

(* ------------------------------- New ---------------------------------- *)
(* The state after New(config), in an environment that will let the      *)
(* clock run to h, inject f upstream faults, deliver m upstream messages *)
(* and send d datagrams.                                                 *)
NewBridge(tcp, udp, h, f, m, d, nc, nb, ns) ==
  /\ cfgTCP \in tcp /\ cfgUDP \in udp
  /\ now = 0 /\ horizon = h /\ faults = f /\ msgs = m
  /\ stopLimit = ns /\ connLimit = nc /\ byteLimit = nb
  /\ sessOpen = {} /\ sessBroken = {} /\ nextSess = 1
  /\ connState = [c \in Conns |-> "none"]
  /\ connKey = [c \in Conns |-> "a"]
  /\ peerClosed = [c \in Conns |-> FALSE]
  /\ tcpIn = [c \in Conns |-> <<>>]
  /\ bytesSent = [c \in Conns |-> 0]
  /\ dgrams = d
  /\ wsConn = 0 /\ wsMutex = "free"
  /\ tcpMutex = "free" /\ udpMutex = "free"
  /\ tcpListener = "nil" /\ tcpClients = [k \in Keys |-> NoConn]
  /\ udpConn = "nil" /\ udpClients = {}
  /\ ctxDone = FALSE /\ wg = 0
  /\ circuitState = "closed" /\ failureCount = 0
  /\ lastFailureTime = 0 /\ circuitOpenUntil = 0
  /\ mainPc = "created" /\ stops = 0 /\ crashed = FALSE
  /\ readerPc = "off" /\ rtype = "none" /\ rdata = <<>> /\ rdeadline = 0
  /\ acceptPc = "off" /\ aconn = NoConn
  /\ hpc = [c \in Conns |-> "off"] /\ hbuf = [c \in Conns |-> <<>>]
  /\ hn = [c \in Conns |-> 0]
  /\ herr = [c \in Conns |-> "nil"]
  /\ udpPc = "off" /\ ubuf = <<>> /\ uaddr = "e"
  /\ gateOp = "none" /\ gateFrom = "closed" /\ gateCnt = 0 /\ attempts = 0
  /\ bcData = <<>> /\ bcTcpSnap = {} /\ bcTcpW = [c \in Conns |-> <<>>]
  /\ bcGone = {} /\ bcLog = [c \in Conns |-> <<>>]
  /\ bcUdpSnap = {} /\ bcUdpW = [a \in Addrs |-> <<>>]
  /\ readLog = [c \in Conns |-> <<>>] /\ sentLog = [c \in Conns |-> <<>>]
  /\ udpSent = <<>> /\ udgram = <<>>

(* ------------------------- cmd/cli/main.go ---------------------------- *)
(* A token file holds one StoredToken or does not exist.                  *)
NoToken == [exp |-> 0, api |-> "", tok |-> "none"]
TcpFlags == {"", "0.0.0.0:14550"}
TcpEnvs == {"", "127.0.0.1:6000"}
ApiUrls == {"https://api.aircast.one", "https://api.dev.aircast.one"}
TokenExpiries == tokenBuffer..(tokenBuffer + MaxClock + 1)
StoredTokens ==
  {NoToken} \cup [exp : TokenExpiries, api : ApiUrls, tok : {"old"}]

(* getEnv(key, defaultValue)                                              *)
getEnv(value, defaultValue) == IF value # "" THEN value ELSE defaultValue

(* flag.String(name, value, usage) after flag.Parse(): the flag when it   *)
(* was given, otherwise the default value.                                *)
flagString(flag, value) == IF flag # "" THEN flag ELSE value

(* TokenStore.DeleteToken: the file after it; removing a file that does   *)
(* not exist is no error.                                                 *)
DeleteToken(file, ok) == IF ok THEN NoToken ELSE file

(* TokenStore.LoadToken: nil when the file does not exist or cannot be    *)
(* read or parsed.                                                        *)
LoadToken(file, ok) == IF ok THEN file ELSE NoToken

(* TokenStore.SaveToken: the file after it.                               *)
SaveToken(file, token, ok) == IF ok THEN token ELSE file

(* TokenStore.IsTokenValid                                                *)
IsTokenValid(token, t) == token # NoToken /\ t < token.exp - tokenBuffer

(* ------------- device-code polling (auth/device_code.go) -------------- *)
(* The clock of a polling run, in seconds, its step, and the number of    *)
(* token requests of one run.                                             *)
MaxPollTime == 20
PollStep == 5
MaxPolls == 3

(* interval = interval + (5 * time.Second)                                *)
slowDown == 5

NoResp == [kind |-> "none", error |-> "", token |-> ""]
NoErr == [type |-> "nil", code |-> ""]
PlainErr(c) == [type |-> "plain", code |-> c]

(* The device code response: interval and expires_in as the server sent   *)
(* them, 0 where the field is absent.                                     *)
DeviceCodeResponses == [Interval : {-5, 0, 5}, ExpiresIn : {0, 15}]

(* What a token request can meet: no answer (transport error), a body     *)
(* that is not JSON, or a TokenResponse with any error code and any       *)
(* access token.                                                          *)
ErrorCodes == {"authorization_pending", "slow_down", "expired_token",
               "access_denied", "invalid_grant"}
Responses ==
  [kind : {"json"}, error : ErrorCodes \cup {""}, token : {"", "tok"}]
    \cup {[kind |-> "transport", error |-> "", token |-> ""],
          [kind |-> "parse", error |-> "", token |-> ""]}

(* A token request that looks at the access token before the error code.  *)
M_attemptTokenRequest(r) ==
  IF r.kind = "transport" THEN [token |-> "", err |-> PlainErr("transport")]
  ELSE IF r.kind = "parse" THEN [token |-> "", err |-> PlainErr("parse")]
  ELSE IF r.token # "" THEN [token |-> r.token, err |-> NoErr]
  ELSE IF r.error # ""
    THEN [token |-> "", err |-> [type |-> "token", code |-> r.error]]
  ELSE [token |-> "", err |-> PlainErr("notoken")]

(* attemptTokenRequest: a transport or parse error is a plain error, a    *)
(* non-empty error field a *TokenErrorResponse, an empty access token a   *)
(* plain error; otherwise the access token.                               *)
attemptTokenRequest(r) ==
  IF r.kind = "transport" THEN [token |-> "", err |-> PlainErr("transport")]
  ELSE IF r.kind = "parse" THEN [token |-> "", err |-> PlainErr("parse")]
  ELSE IF r.error # ""
    THEN [token |-> "", err |-> [type |-> "token", code |-> r.error]]
  ELSE IF r.token = "" THEN [token |-> "", err |-> PlainErr("notoken")]
  ELSE [token |-> r.token, err |-> NoErr]

(* time.Time.After                                                        *)
After(t, u) == t > u

(* A tick is waiting in ticker.C.                                         *)
TickReady == pollNow >= ticker

(* The first period boundary of the ticker after the current time.        *)
NextTick == ticker + interval * ((pollNow - ticker) \div interval + 1)

(* No polling run.                                                        *)
PollOff ==
  /\ deviceResp = [Interval |-> 0, ExpiresIn |-> 0]
  /\ pollNow = 0 /\ pollCancelled = FALSE /\ pollPc = "off"
  /\ interval = 0 /\ expires = 0 /\ ticker = 0
  /\ pollToken = "" /\ pollErr = NoErr /\ lastResp = NoResp /\ pollCount = 0

(* ---------------- the device picker (ui/device_picker.go) ------------- *)
(* The longest device list and the number of key events of one run.       *)
MaxDevices == 3
MaxKeys == 3

(* The devices of the account, numbered; NoDevice is the nil pointer.     *)
NoDevice == 0
DeviceLists == {[i \in 1..n |-> i] : n \in 0..MaxDevices}
KeyMsgs == {"ctrl+c", "q", "esc", "up", "k", "down", "j", "enter", " ",
            "1", "2", "3", "4", "5", "6", "7", "8", "9", "x"}

(* int(msg.String()[0] - '0') for the keys "1" to "9".                    *)
Digit(key) ==
  CASE key = "1" -> 1 [] key = "2" -> 2 [] key = "3" -> 3
    [] key = "4" -> 4 [] key = "5" -> 5 [] key = "6" -> 6
    [] key = "7" -> 7 [] key = "8" -> 8 [] key = "9" -> 9

(* devicePickerModel{devices, cursor: 0, selected: -1, done: false}       *)
NewModel == [cursor |-> 0, selected |-> -1, done |-> FALSE]

(* An Update that moves the cursor down without looking at the length of  *)
(* the list.                                                              *)
M_Update(m, n, key) ==
  IF key \in {"ctrl+c", "q", "esc"} THEN [m |-> m, quit |-> TRUE]
  ELSE IF key \in {"up", "k"}
    THEN [m |-> [m EXCEPT !.cursor = IF @ > 0 THEN @ - 1 ELSE @],
          quit |-> FALSE]
  ELSE IF key \in {"down", "j"}
    THEN [m |-> [m EXCEPT !.cursor = @ + 1], quit |-> FALSE]
  ELSE IF key \in {"enter", " "}
    THEN [m |-> [m EXCEPT !.selected = m.cursor, !.done = TRUE],
          quit |-> TRUE]
  ELSE IF key \in {"1", "2", "3", "4", "5", "6", "7", "8", "9"}
          /\ Digit(key) > 0 /\ Digit(key) <= n
    THEN [m |-> [m EXCEPT !.selected = Digit(key) - 1, !.done = TRUE],
          quit |-> TRUE]
  ELSE [m |-> m, quit |-> FALSE]

(* devicePickerModel.Update for a key message: the new model and whether  *)
(* the command returned is tea.Quit; n is len(m.devices).                 *)
Update(m, n, key) ==
  IF key \in {"ctrl+c", "q", "esc"} THEN [m |-> m, quit |-> TRUE]
  ELSE IF key \in {"up", "k"}
    THEN [m |-> [m EXCEPT !.cursor = IF @ > 0 THEN @ - 1 ELSE @],
          quit |-> FALSE]
  ELSE IF key \in {"down", "j"}
    THEN [m |-> [m EXCEPT !.cursor = IF @ < n - 1 THEN @ + 1 ELSE @],
          quit |-> FALSE]
  ELSE IF key \in {"enter", " "}
    THEN [m |-> [m EXCEPT !.selected = m.cursor, !.done = TRUE],
          quit |-> TRUE]
  ELSE IF key \in {"1", "2", "3", "4", "5", "6", "7", "8", "9"}
          /\ Digit(key) > 0 /\ Digit(key) <= n
    THEN [m |-> [m EXCEPT !.selected = Digit(key) - 1, !.done = TRUE],
          quit |-> TRUE]
  ELSE [m |-> m, quit |-> FALSE]

(* No picker.                                                             *)
PickOff ==
  /\ devices = <<>> /\ pickModel = NewModel /\ pickPc = "off"
  /\ pickQuit = FALSE /\ pickKeys = 0 /\ pickResult = NoDevice

(* The relay taken on its own: main is not modelled.                      *)
CliOff ==
  /\ flagTcp = "" /\ envTcp = "" /\ doLogin = FALSE /\ doLogout = FALSE
  /\ cfgApi = "https://api.aircast.one" /\ tokenFile = NoToken
  /\ cliNow = 0 /\ cliPc = "off" /\ tcpListen = ""
  /\ storedToken = NoToken /\ accessToken = "none" /\ authRan = FALSE

InitWith(tcp, udp, h, f, m, d, nc, nb, ns) ==
  NewBridge(tcp, udp, h, f, m, d, nc, nb, ns) /\ CliOff /\ PollOff /\ PickOff

(* The flag definitions and flag.Parse().                                 *)
CliParse ==
  /\ cliPc = "start"
  /\ tcpListen' = flagString(flagTcp, getEnv(envTcp, defaultTCP))
  /\ cliPc' = "logout"
  /\ UNCHANGED <<cfgTCP, cfgUDP, uiVars, relayVars, flagTcp, envTcp, doLogin,
                 doLogout, cfgApi, tokenFile, cliNow, storedToken,
                 accessToken, authRan>>

(* if *doLogout: delete the token and exit; a failed delete is fatal.     *)
CliLogout ==
  /\ cliPc = "logout"
  /\ IF doLogout
       THEN \E ok \in BOOLEAN :
              /\ ok \/ tokenFile # NoToken
              /\ tokenFile' = DeleteToken(tokenFile, ok)
              /\ cliPc' = IF ok THEN "exit" ELSE "fatal"
       ELSE cliPc' = "login" /\ UNCHANGED tokenFile
  /\ UNCHANGED <<cfgTCP, cfgUDP, uiVars, relayVars, flagTcp, envTcp, doLogin,
                 doLogout, cfgApi, cliNow, tcpListen, storedToken,
                 accessToken, authRan>>

(* if *doLogin { _ = tokenStore.DeleteToken() }: the error is dropped.    *)
CliLogin ==
  /\ cliPc = "login"
  /\ IF doLogin
       THEN \E ok \in BOOLEAN :
              /\ ok \/ tokenFile # NoToken
              /\ tokenFile' = DeleteToken(tokenFile, ok)
       ELSE UNCHANGED tokenFile
  /\ cliPc' = "load"
  /\ UNCHANGED <<cfgTCP, cfgUDP, uiVars, relayVars, flagTcp, envTcp, doLogin,
                 doLogout, cfgApi, cliNow, tcpListen, storedToken,
                 accessToken, authRan>>

(* storedToken, err := tokenStore.LoadToken(); an error is only logged.   *)
CliLoad ==
  /\ cliPc = "load"
  /\ \E ok \in BOOLEAN :
       /\ ok \/ tokenFile # NoToken
       /\ storedToken' = LoadToken(tokenFile, ok)
  /\ cliPc' = "check"
  /\ UNCHANGED <<cfgTCP, cfgUDP, uiVars, relayVars, flagTcp, envTcp, doLogin,
                 doLogout, cfgApi, tokenFile, cliNow, tcpListen,
                 accessToken, authRan>>

(* The test for a usable stored token.                                    *)
CliCheck ==
  /\ cliPc = "check"
  /\ IF /\ storedToken # NoToken
        /\ IsTokenValid(storedToken, cliNow)
        /\ storedToken.api = cfgApi
       THEN accessToken' = storedToken.tok /\ cliPc' = "device"
       ELSE UNCHANGED accessToken /\ cliPc' = "auth"
  /\ UNCHANGED <<cfgTCP, cfgUDP, uiVars, relayVars, flagTcp, envTcp, doLogin,
                 doLogout, cfgApi, tokenFile, cliNow, tcpListen,
                 storedToken, authRan>>

(* authenticator.Authenticate(ctx): a failure is fatal.                   *)
CliAuth ==
  /\ cliPc = "auth"
  /\ authRan' = TRUE
  /\ \E ok \in BOOLEAN :
       IF ok THEN accessToken' = "new" /\ cliPc' = "save"
       ELSE UNCHANGED accessToken /\ cliPc' = "fatal"
  /\ UNCHANGED <<cfgTCP, cfgUDP, uiVars, relayVars, flagTcp, envTcp, doLogin,
                 doLogout, cfgApi, tokenFile, cliNow, tcpListen,
                 storedToken>>

(* tokenStore.SaveToken(newToken), ExpiresAt 24 hours from now; a failure *)
(* is only logged.                                                        *)
CliSave ==
  /\ cliPc = "save"
  /\ \E ok \in BOOLEAN :
       tokenFile' = SaveToken(tokenFile,
                              [exp |-> cliNow + tokenLifetime,
                               api |-> cfgApi, tok |-> accessToken], ok)
  /\ cliPc' = "device"
  /\ UNCHANGED <<cfgTCP, cfgUDP, uiVars, relayVars, flagTcp, envTcp, doLogin,
                 doLogout, cfgApi, cliNow, tcpListen, storedToken,
                 accessToken, authRan>>

(* A minute passes while main runs.                                       *)
CliTick ==
  /\ cliPc \in {"start", "logout", "login", "load", "check", "auth", "save"}
  /\ cliNow < MaxClock
  /\ cliNow' = cliNow + 1
  /\ UNCHANGED <<cfgTCP, cfgUDP, uiVars, relayVars, flagTcp, envTcp, doLogin,
                 doLogout, cfgApi, tokenFile, cliPc, tcpListen, storedToken,
                 accessToken, authRan>>


(* ---------------------- tcpMutex and udpMutex ------------------------- *)
(* sync.RWMutex: "free", "write" (held through Lock) or "read" (held      *)
(* through RLock; the read loop is the only task that takes it so).       *)
(* A Lock that is granted while a reader is inside.                       *)
M_WLockable(m) == m # "write"

(* Lock() returns when nobody holds the mutex.                            *)
WLockable(m) == m = "free"

(* RLock() returns when no writer holds the mutex.                        *)
RLockable(m) == m # "write"

(* ---------------------------- websocket.Conn -------------------------- *)
(* A Close that leaves the session open.                                  *)
M_Close(open, conn) == open

(* conn.Close(): the open sessions after it.                              *)
Close(open, conn) == open \ {conn}

(* ------------------------------ Start --------------------------------- *)
(* connectWebSocket succeeds: the dial yields a fresh session.            *)
StartConnectOk ==
  /\ ~crashed /\ mainPc = "created"
  /\ sessOpen' = sessOpen \cup {nextSess}
  /\ wsConn' = nextSess
  /\ nextSess' = nextSess + 1
  /\ mainPc' = "start_tcp"
  /\ UNCHANGED <<cfgLocks, now, limits, faults, msgs, sessBroken, peerClosed,
                 tcpIn,
                 bytesSent, dgrams, connKey, connState, wsMutex, tcpListener,
                 tcpClients, udpConn, udpClients, ctxDone, wg, gateVars,
                 stops, crashed, readerPc, readerLocals,
                 tcpTaskVars, udpTaskVars, gateHist, bcHist, fwdHist>>

(* A Start that carries on to the listeners after a failed connect.       *)
M_StartConnectFail ==
  /\ ~crashed /\ mainPc = "created"
  /\ mainPc' = "start_tcp"
  /\ UNCHANGED <<cfgLocks, envVars, sessOpen, connState, wsConn, wsMutex,
                 tcpListener, tcpClients, udpConn, udpClients, ctxDone, wg,
                 gateVars, stops, crashed, readerPc, readerLocals,
                 tcpTaskVars, udpTaskVars, gateHist, bcHist, fwdHist>>

(* connectWebSocket fails: Start returns the error at once.               *)
StartConnectFail ==
  /\ ~crashed /\ mainPc = "created"
  /\ mainPc' = "startFailed"
  /\ UNCHANGED <<cfgLocks, envVars, sessOpen, connState, wsConn, wsMutex,
                 tcpListener, tcpClients, udpConn, udpClients, ctxDone, wg,
                 gateVars, stops, crashed, readerPc, readerLocals,
                 tcpTaskVars, udpTaskVars, gateHist, bcHist, fwdHist>>

(* startTCPListener, when a TCP address is configured and the bind works. *)
StartTCP ==
  /\ ~crashed /\ mainPc = "start_tcp"
  /\ IF cfgTCP
       THEN /\ tcpListener' = "open"
            /\ wg' = wg + 1
            /\ acceptPc' = "accept"
       ELSE UNCHANGED <<tcpListener, wg, acceptPc>>
  /\ mainPc' = "start_udp"
  /\ UNCHANGED <<cfgLocks, envVars, sessOpen, connState, wsConn, wsMutex,
                 tcpClients, udpConn, udpClients, ctxDone, gateVars,
                 stops, crashed, readerPc, readerLocals,
                 aconn, hpc, hbuf, hn, herr, udpTaskVars, gateHist, bcHist,
                 fwdHist>>

(* startTCPListener fails to bind: Start returns the error.               *)
StartTCPFail ==
  /\ ~crashed /\ mainPc = "start_tcp" /\ cfgTCP
  /\ mainPc' = "startFailed"
  /\ UNCHANGED <<cfgLocks, envVars, sessOpen, connState, wsConn, wsMutex,
                 tcpListener, tcpClients, udpConn, udpClients, ctxDone, wg,
                 gateVars, stops, crashed, readerPc, readerLocals,
                 tcpTaskVars, udpTaskVars, gateHist, bcHist, fwdHist>>

(* startUDPListener, when a UDP address is configured and the bind works. *)
StartUDP ==
  /\ ~crashed /\ mainPc = "start_udp"
  /\ IF cfgUDP
       THEN /\ udpConn' = "open"
            /\ wg' = wg + 1
            /\ udpPc' = "top"
       ELSE UNCHANGED <<udpConn, wg, udpPc>>
  /\ mainPc' = "start_reader"
  /\ UNCHANGED <<cfgLocks, envVars, sessOpen, connState, wsConn, wsMutex,
                 tcpListener, tcpClients, udpClients, ctxDone, gateVars,
                 stops, crashed, readerPc, readerLocals,
                 tcpTaskVars, ubuf, uaddr, gateHist, bcHist, fwdHist>>

(* startUDPListener fails to resolve or bind: Start returns the error.    *)
StartUDPFail ==
  /\ ~crashed /\ mainPc = "start_udp" /\ cfgUDP
  /\ mainPc' = "startFailed"
  /\ UNCHANGED <<cfgLocks, envVars, sessOpen, connState, wsConn, wsMutex,
                 tcpListener, tcpClients, udpConn, udpClients, ctxDone, wg,
                 gateVars, stops, crashed, readerPc, readerLocals,
                 tcpTaskVars, udpTaskVars, gateHist, bcHist, fwdHist>>

(* wg.Add(1); go b.readWebSocket(); Start returns nil.                    *)
StartReader ==
  /\ ~crashed /\ mainPc = "start_reader"
  /\ wg' = wg + 1
  /\ readerPc' = "top"
  /\ mainPc' = "running"
  /\ UNCHANGED <<cfgLocks, envVars, sessOpen, connState, wsConn, wsMutex,
                 tcpListener, tcpClients, udpConn, udpClients, ctxDone,
                 gateVars, stops, crashed, readerLocals,
                 tcpTaskVars, udpTaskVars, gateHist, bcHist, fwdHist>>

(* ------------------------------- Stop --------------------------------- *)
(* Stop() may be called once Start has returned (with or without error),  *)
(* on a bridge that was never started, and again after Stop has returned. *)
StopCallable == mainPc \in {"created", "startFailed", "running", "stopped"}

(* b.cancel()                                                             *)
StopCancel ==
  /\ ~crashed /\ StopCallable /\ stops < stopLimit
  /\ ctxDone' = TRUE
  /\ stops' = stops + 1
  /\ mainPc' = "stop_ws"
  /\ UNCHANGED <<cfgLocks, envVars, sessOpen, connState, wsConn, wsMutex,
                 tcpListener, tcpClients, udpConn, udpClients, wg, gateVars,
                 crashed, readerPc, readerLocals, tcpTaskVars,
                 udpTaskVars, gateHist, bcHist, fwdHist>>

(* if b.wsConn != nil (read without the lock)                             *)
StopWsCheck ==
  /\ ~crashed /\ mainPc = "stop_ws"
  /\ mainPc' = IF wsConn # 0 THEN "stop_ws_close" ELSE "stop_listener"
  /\ UNCHANGED <<cfgLocks, envVars, sessOpen, connState, wsConn, wsMutex,
                 tcpListener, tcpClients, udpConn, udpClients, ctxDone, wg,
                 gateVars, stops, crashed, readerPc, readerLocals,
                 tcpTaskVars, udpTaskVars, gateHist, bcHist, fwdHist>>

(* b.wsCancel(); b.wsConn.Close(): the field is read a second time, after *)
(* the call of wsCancel; a nil read here is a nil-pointer panic.          *)
StopWsClose ==
  /\ ~crashed /\ mainPc = "stop_ws_close"
  /\ IF wsConn = 0
       THEN /\ crashed' = TRUE
            /\ UNCHANGED <<sessOpen, mainPc>>
       ELSE /\ sessOpen' = Close(sessOpen, wsConn)
            /\ mainPc' = "stop_listener"
            /\ UNCHANGED crashed
  /\ UNCHANGED <<cfgLocks, envVars, connState, wsConn, wsMutex,
                 tcpListener, tcpClients, udpConn, udpClients, ctxDone, wg,
                 gateVars, stops, readerPc, readerLocals,
                 tcpTaskVars, udpTaskVars, gateHist, bcHist, fwdHist>>

(* if b.tcpListener != nil { b.tcpListener.Close() }                      *)
StopListener ==
  /\ ~crashed /\ mainPc = "stop_listener"
  /\ tcpListener' = IF tcpListener # "nil" THEN "closed" ELSE tcpListener
  /\ mainPc' = "lock_clients"
  /\ UNCHANGED <<cfgLocks, envVars, sessOpen, connState, wsConn, wsMutex,
                 tcpClients, udpConn, udpClients, ctxDone, wg,
                 gateVars, stops, crashed, readerPc, readerLocals,
                 tcpTaskVars, udpTaskVars, gateHist, bcHist, fwdHist>>

(* b.tcpMutex.Lock()                                                      *)
StopLockTcp ==
  /\ ~crashed /\ mainPc = "lock_clients" /\ WLockable(tcpMutex)
  /\ tcpMutex' = "write"
  /\ mainPc' = "stop_clients"
  /\ UNCHANGED <<cfgVars, udpMutex, envVars, sessOpen, connState, wsConn,
                 wsMutex, tcpListener, tcpClients, udpConn, udpClients,
                 ctxDone, wg, gateVars, stops, crashed, readerPc,
                 readerLocals, tcpTaskVars, udpTaskVars, gateHist, bcHist,
                 fwdHist>>

(* A close-all iteration that keeps tcpMutex until Stop() returns.        *)
M_StopClients ==
  /\ ~crashed /\ mainPc = "stop_clients"
  /\ connState' = [c \in Conns |->
                     IF c \in Registered THEN "closed" ELSE connState[c]]
  /\ mainPc' = "stop_udp"
  /\ UNCHANGED <<cfgLocks, envVars, sessOpen, wsConn, wsMutex, tcpListener,
                 tcpClients, udpConn, udpClients, ctxDone, wg,
                 gateVars, stops, crashed, readerPc, readerLocals,
                 tcpTaskVars, udpTaskVars, gateHist, bcHist, fwdHist>>

(* Close every conn of tcpClients; tcpMutex.Unlock()                      *)
StopClients ==
  /\ ~crashed /\ mainPc = "stop_clients"
  /\ connState' = [c \in Conns |->
                     IF c \in Registered THEN "closed" ELSE connState[c]]
  /\ tcpMutex' = "free"
  /\ mainPc' = "stop_udp"
  /\ UNCHANGED <<cfgVars, udpMutex, envVars, sessOpen, wsConn, wsMutex, tcpListener,
                 tcpClients, udpConn, udpClients, ctxDone, wg,
                 gateVars, stops, crashed, readerPc, readerLocals,
                 tcpTaskVars, udpTaskVars, gateHist, bcHist, fwdHist>>

(* if b.udpConn != nil { b.udpConn.Close() }                              *)
StopUDP ==
  /\ ~crashed /\ mainPc = "stop_udp"
  /\ udpConn' = IF udpConn # "nil" THEN "closed" ELSE udpConn
  /\ mainPc' = "stop_wait"
  /\ UNCHANGED <<cfgLocks, envVars, sessOpen, connState, wsConn, wsMutex,
                 tcpListener, tcpClients, udpClients, ctxDone, wg,
                 gateVars, stops, crashed, readerPc, readerLocals,
                 tcpTaskVars, udpTaskVars, gateHist, bcHist, fwdHist>>

(* A Wait that returns while goroutines are still counted.                *)
M_Wait(n) == TRUE

(* sync.WaitGroup.Wait returns when the counter is zero.                  *)
Wait(n) == n = 0

(* b.wg.Wait(); return nil                                                *)
StopWait ==
  /\ ~crashed /\ mainPc = "stop_wait"
  /\ Wait(wg)
  /\ mainPc' = "stopped"
  /\ UNCHANGED <<cfgLocks, envVars, sessOpen, connState, wsConn, wsMutex,
                 tcpListener, tcpClients, udpConn, udpClients, ctxDone, wg,
                 gateVars, stops, crashed, readerPc, readerLocals,
                 tcpTaskVars, udpTaskVars, gateHist, bcHist, fwdHist>>

MainStep ==
  \/ StartConnectOk \/ StartConnectFail \/ StartTCP \/ StartTCPFail
  \/ StartUDP \/ StartUDPFail \/ StartReader
  \/ StopCancel \/ StopWsCheck \/ StopWsClose \/ StopListener
  \/ StopLockTcp \/ StopClients \/ StopUDP \/ StopWait

(* ------------------------------ wsMutex ------------------------------- *)
(* A lock that is granted whoever holds it.                               *)
M_Lockable(m) == TRUE

(* b.wsMutex.Lock() returns only when no goroutine holds the mutex.       *)
Lockable(m) == m = "free"

(* --------------------------- circuit breaker -------------------------- *)
(* A resetCircuit that clears the count and leaves the state.             *)
M_resetCircuit(state, count) == <<state, 0>>

(* time.Since in the place of time.Until.                                 *)
M_waitTime(openUntil, t) == t - openUntil

(* A recordFailure that opens the circuit one failure late.               *)
M_recordFailure(state, count, openUntil, t) ==
  IF count + 1 > failureThreshold /\ state = "closed"
    THEN <<"open", count + 1, t + circuitOpenPeriod>>
    ELSE <<state, count + 1, openUntil>>

(* recordFailure: the state after it, as <<state, count, openUntil>>.     *)
recordFailure(state, count, openUntil, t) ==
  IF count + 1 >= failureThreshold /\ state = "closed"
    THEN <<"open", count + 1, t + circuitOpenPeriod>>
    ELSE <<state, count + 1, openUntil>>

(* resetCircuit: the state and the count after it.                        *)
resetCircuit(state, count) == <<"closed", 0>>

(* time.Until(b.circuitOpenUntil)                                         *)
waitTime(openUntil, t) == openUntil - t

(* --------------------------- readWebSocket ---------------------------- *)
otherTasks == <<cfgLocks, mainVars, tcpTaskVars, udpTaskVars>>
netVars == <<connState, tcpListener, tcpClients, udpConn, udpClients>>
clientEnv == <<peerClosed, tcpIn, bytesSent, dgrams, connKey, limits>>

(* Top of the loop: select on ctx.Done(), default falls through.          *)
RTop ==
  /\ ~crashed /\ readerPc = "top"
  /\ IF ctxDone
       THEN readerPc' = "done" /\ wg' = wg - 1
       ELSE readerPc' = "read" /\ UNCHANGED wg
  /\ UNCHANGED <<otherTasks, netVars, clientEnv, now, faults, msgs,
                 sessBroken, nextSess, sessOpen, wsConn, wsMutex, ctxDone,
                 gateVars, crashed, readerLocals, gateHist, bcHist, fwdHist>>

(* b.wsConn.ReadMessage() on a nil connection: nil-pointer panic, which   *)
(* ends the process.                                                      *)
RReadNil ==
  /\ ~crashed /\ readerPc = "read" /\ wsConn = 0
  /\ crashed' = TRUE
  /\ readerPc' = "panicked"
  /\ UNCHANGED <<otherTasks, netVars, clientEnv, now, faults, msgs,
                 sessBroken, nextSess, sessOpen, wsConn, wsMutex, ctxDone, wg,
                 gateVars, readerLocals, gateHist, bcHist, fwdHist>>

(* ReadMessage returns a message of the live session.                     *)
RReadMsg(t, d) ==
  /\ ~crashed /\ readerPc = "read" /\ wsConn # 0
  /\ wsConn \in sessOpen /\ wsConn \notin sessBroken
  /\ msgs > 0
  /\ msgs' = msgs - 1
  /\ rtype' = t /\ rdata' = d
  /\ readerPc' = "got"
  /\ UNCHANGED <<otherTasks, netVars, clientEnv, now, faults,
                 sessBroken, nextSess, sessOpen, wsConn, wsMutex, ctxDone, wg,
                 gateVars, crashed, rdeadline, gateHist, bcHist, fwdHist>>

(* ReadMessage returns an error: the session was closed or has broken.    *)
RReadErr ==
  /\ ~crashed /\ readerPc = "read" /\ wsConn # 0
  /\ ~(wsConn \in sessOpen /\ wsConn \notin sessBroken)
  /\ readerPc' = "err"
  /\ UNCHANGED <<otherTasks, netVars, clientEnv, now, faults, msgs,
                 sessBroken, nextSess, sessOpen, wsConn, wsMutex, ctxDone, wg,
                 gateVars, crashed, readerLocals, gateHist, bcHist, fwdHist>>

(* On the error: select on ctx.Done(), default goes on to the bookkeeping. *)
RErr ==
  /\ ~crashed /\ readerPc = "err"
  /\ IF ctxDone
       THEN readerPc' = "done" /\ wg' = wg - 1
       ELSE readerPc' = "recfail" /\ UNCHANGED wg
  /\ UNCHANGED <<otherTasks, netVars, clientEnv, now, faults, msgs,
                 sessBroken, nextSess, sessOpen, wsConn, wsMutex, ctxDone,
                 gateVars, crashed, readerLocals, gateHist, bcHist, fwdHist>>

(* b.recordFailure(), under wsMutex.                                      *)
RRecordFailure ==
  /\ ~crashed /\ readerPc = "recfail" /\ Lockable(wsMutex)
  /\ LET r == recordFailure(circuitState, failureCount, circuitOpenUntil, now)
     IN /\ circuitState' = r[1]
        /\ failureCount' = r[2]
        /\ circuitOpenUntil' = r[3]
  /\ lastFailureTime' = now
  /\ gateOp' = "failure" /\ gateFrom' = circuitState /\ gateCnt' = failureCount
  /\ readerPc' = "check"
  /\ UNCHANGED <<otherTasks, netVars, clientEnv, now, faults, msgs,
                 sessBroken, nextSess, sessOpen, wsConn, wsMutex, ctxDone, wg,
                 crashed, readerLocals, attempts, bcHist, fwdHist>>

(* if circuitState == "open" and waitTime > 0: start the cooldown wait.   *)
RCheck ==
  /\ ~crashed /\ readerPc = "check"
  /\ IF circuitState = "open" /\ waitTime(circuitOpenUntil, now) > 0
       THEN /\ rdeadline' = now + waitTime(circuitOpenUntil, now)
            /\ readerPc' = "wait"
       ELSE /\ readerPc' = "reconnect"
            /\ UNCHANGED rdeadline
  /\ UNCHANGED <<otherTasks, netVars, clientEnv, now, faults, msgs,
                 sessBroken, nextSess, sessOpen, wsConn, wsMutex, ctxDone, wg,
                 gateVars, crashed, rtype, rdata, gateHist, bcHist, fwdHist>>

(* The timer a sleeping goroutine waits for has fired.                    *)
TimerFired(deadline, t) == t >= deadline

(* The cooldown wait ends by cancellation: return.                        *)
RWaitCancel ==
  /\ ~crashed /\ readerPc = "wait" /\ ctxDone
  /\ readerPc' = "done" /\ wg' = wg - 1
  /\ UNCHANGED <<otherTasks, netVars, clientEnv, now, faults, msgs,
                 sessBroken, nextSess, sessOpen, wsConn, wsMutex, ctxDone,
                 gateVars, crashed, readerLocals, gateHist, bcHist, fwdHist>>

(* The cooldown wait ends by its timer: the circuit goes half-open.       *)
RWaitTimer ==
  /\ ~crashed /\ readerPc = "wait" /\ TimerFired(rdeadline, now)
  /\ circuitState' = "half-open"
  /\ gateOp' = "halfopen" /\ gateFrom' = circuitState /\ gateCnt' = failureCount
  /\ attempts' = 0
  /\ readerPc' = "reconnect"
  /\ UNCHANGED <<otherTasks, netVars, clientEnv, now, faults, msgs,
                 sessBroken, nextSess, sessOpen, wsConn, wsMutex, ctxDone, wg,
                 failureCount, lastFailureTime, circuitOpenUntil,
                 crashed, readerLocals, bcHist, fwdHist>>

(* reconnectWebSocket, first half: take wsMutex, close the old            *)
(* connection and set wsConn to nil.                                      *)
RReconnectLock ==
  /\ ~crashed /\ readerPc = "reconnect" /\ Lockable(wsMutex)
  /\ wsMutex' = "reader"
  /\ sessOpen' = Close(sessOpen, wsConn)
  /\ wsConn' = 0
  /\ attempts' = Min(attempts + 1, 2)
  /\ readerPc' = "dial"
  /\ UNCHANGED <<otherTasks, netVars, clientEnv, now, faults, msgs,
                 sessBroken, nextSess, ctxDone, wg, gateVars, crashed,
                 readerLocals, gateOp, gateFrom, gateCnt, bcHist, fwdHist>>

(* A successful dial that resets the circuit breaker.                     *)
M_RDialOk ==
  /\ ~crashed /\ readerPc = "dial"
  /\ sessOpen' = sessOpen \cup {nextSess}
  /\ wsConn' = nextSess
  /\ nextSess' = nextSess + 1
  /\ wsMutex' = "free"
  /\ circuitState' = "closed" /\ failureCount' = 0
  /\ readerPc' = "top"
  /\ UNCHANGED <<otherTasks, netVars, clientEnv, now, faults, msgs,
                 sessBroken, ctxDone, wg, lastFailureTime, circuitOpenUntil,
                 crashed, readerLocals, gateHist, bcHist, fwdHist>>

(* reconnectWebSocket, second half: the dial succeeds.                    *)
RDialOk ==
  /\ ~crashed /\ readerPc = "dial"
  /\ sessOpen' = sessOpen \cup {nextSess}
  /\ wsConn' = nextSess
  /\ nextSess' = nextSess + 1
  /\ wsMutex' = "free"
  /\ readerPc' = "top"
  /\ UNCHANGED <<otherTasks, netVars, clientEnv, now, faults, msgs,
                 sessBroken, ctxDone, wg, gateVars, crashed,
                 readerLocals, gateHist, bcHist, fwdHist>>

(* reconnectWebSocket, second half: the dial fails; wsConn stays nil and  *)
(* the loop sleeps 2 s.                                                   *)
RDialFail ==
  /\ ~crashed /\ readerPc = "dial"
  /\ faults > 0
  /\ faults' = faults - 1
  /\ wsMutex' = "free"
  /\ rdeadline' = now + reconnectBackoff
  /\ readerPc' = "backoff"
  /\ UNCHANGED <<otherTasks, netVars, clientEnv, now, msgs, sessOpen, wsConn,
                 sessBroken, nextSess, ctxDone, wg, gateVars, crashed,
                 rtype, rdata, gateHist, bcHist, fwdHist>>

(* time.Sleep(2 * time.Second) is over; continue.                         *)
RBackoffDone ==
  /\ ~crashed /\ readerPc = "backoff" /\ TimerFired(rdeadline, now)
  /\ readerPc' = "top"
  /\ UNCHANGED <<otherTasks, netVars, clientEnv, now, faults, msgs,
                 sessBroken, nextSess, sessOpen, wsConn, wsMutex, ctxDone, wg,
                 gateVars, crashed, readerLocals, gateHist, bcHist, fwdHist>>

(* b.resetCircuit() after a successful read, under wsMutex.               *)
RReset ==
  /\ ~crashed /\ readerPc = "got" /\ Lockable(wsMutex)
  /\ LET r == resetCircuit(circuitState, failureCount)
     IN circuitState' = r[1] /\ failureCount' = r[2]
  /\ gateOp' = "success" /\ gateFrom' = circuitState /\ gateCnt' = failureCount
  /\ attempts' = 0
  /\ readerPc' = "dispatch"
  /\ UNCHANGED <<otherTasks, netVars, clientEnv, now, faults, msgs,
                 sessBroken, nextSess, sessOpen, wsConn, wsMutex, ctxDone, wg,
                 lastFailureTime, circuitOpenUntil, crashed, readerLocals,
                 bcHist, fwdHist>>

(* ----------------------------- broadcast ------------------------------ *)
(* conn.Write on a TCP client succeeds while the connection is open at    *)
(* both ends.                                                             *)
TcpWriteOk(c) == connState[c] = "open" /\ ~peerClosed[c]

(* A loop over b.tcpClients that ends at the first write that fails.      *)
RECURSIVE M_TcpPassStop(_, _, _, _)
M_TcpPassStop(m, keys, data, w) ==
  IF keys = {} THEN w
  ELSE LET k == CHOOSE x \in keys : TRUE
           c == m[k]
       IN IF TcpWriteOk(c)
            THEN M_TcpPassStop(m, keys \ {k}, data,
                               [w EXCEPT ![c] = Append(@, <<data, TRUE>>)])
            ELSE [w EXCEPT ![c] = Append(@, <<data, FALSE>>)]

(* A loop over b.tcpClients that ends after its first write.              *)
M_TcpPass(m, keys, data, w) ==
  IF keys = {} THEN w
  ELSE LET k == CHOOSE x \in keys : TRUE
           c == m[k]
       IN [w EXCEPT ![c] = Append(@, <<data, TcpWriteOk(c)>>)]

(* The loop over b.tcpClients: one conn.Write(data) per map entry.  The   *)
(* result gives, per connection, the writes made to it in this pass, each *)
(* as <<payload, succeeded>>.                                             *)
RECURSIVE TcpPass(_, _, _, _)
TcpPass(m, keys, data, w) ==
  IF keys = {} THEN w
  ELSE LET k == CHOOSE x \in keys : TRUE
           c == m[k]
       IN TcpPass(m, keys \ {k}, data,
                  [w EXCEPT ![c] = Append(@, <<data, TcpWriteOk(c)>>)])

(* The loop over b.udpClients: one WriteToUDP(data, addr) per entry.      *)
RECURSIVE UdpPass(_, _, _)
UdpPass(addrs, data, w) ==
  IF addrs = {} THEN w
  ELSE LET a == CHOOSE x \in addrs : TRUE
       IN UdpPass(addrs \ {a}, data,
                  [w EXCEPT ![a] = Append(@, <<data, udpConn = "open">>)])

(* A test that takes every message for a binary one.                      *)
M_IsBinary(t) == TRUE

(* msgType == websocket.BinaryMessage                                     *)
IsBinary(t) == t = "binary"

(* if msgType != websocket.BinaryMessage { continue }                     *)
RDispatch ==
  /\ ~crashed /\ readerPc = "dispatch"
  /\ readerPc' = IF ~IsBinary(rtype) THEN "top" ELSE "lock_tcp"
  /\ UNCHANGED <<otherTasks, netVars, clientEnv, now, faults, msgs,
                 sessBroken, nextSess, sessOpen, wsConn, wsMutex, ctxDone, wg,
                 gateVars, crashed, readerLocals, gateHist, bcHist, fwdHist>>

(* b.tcpMutex.RLock()                                                     *)
RLockTcp ==
  /\ ~crashed /\ readerPc = "lock_tcp" /\ RLockable(tcpMutex)
  /\ tcpMutex' = "read"
  /\ readerPc' = "bc_tcp"
  /\ UNCHANGED <<cfgVars, udpMutex, mainVars, tcpTaskVars, udpTaskVars,
                 netVars, clientEnv, now, faults, msgs, sessBroken, nextSess,
                 sessOpen, wsConn, wsMutex, ctxDone, wg, gateVars, crashed,
                 readerLocals, gateHist, bcHist, fwdHist>>

(* Forward to all TCP clients; b.tcpMutex.RUnlock().                      *)
RBroadcastTCP ==
  /\ ~crashed /\ readerPc = "bc_tcp"
  /\ tcpMutex' = "free"
  /\ bcData' = rdata
  /\ bcTcpSnap' = Registered
  /\ bcGone' = {c \in Conns : hpc[c] = "done"}
  /\ bcTcpW' = TcpPass(tcpClients, {k \in Keys : tcpClients[k] # NoConn},
                       rdata, [c \in Conns |-> <<>>])
  /\ bcLog' = [c \in Conns |->
                 IF bcTcpW'[c] # <<>> /\ bcTcpW'[c][1][2]
                   THEN Append(bcLog[c], bcTcpW'[c][1][1]) ELSE bcLog[c]]
  /\ bcUdpSnap' = {}
  /\ bcUdpW' = [a \in Addrs |-> <<>>]
  /\ readerPc' = "lock_udp"
  /\ UNCHANGED <<cfgVars, udpMutex, mainVars, tcpTaskVars, udpTaskVars,
                 netVars, clientEnv, now, faults, msgs,
                 sessBroken, nextSess, sessOpen, wsConn, wsMutex, ctxDone, wg,
                 gateVars, crashed, readerLocals, gateHist, fwdHist>>

(* if b.udpConn != nil { b.udpMutex.RLock()                               *)
RLockUdp ==
  /\ ~crashed /\ readerPc = "lock_udp"
  /\ IF udpConn # "nil"
       THEN RLockable(udpMutex) /\ udpMutex' = "read"
       ELSE UNCHANGED udpMutex
  /\ readerPc' = "bc_udp"
  /\ UNCHANGED <<cfgVars, tcpMutex, mainVars, tcpTaskVars, udpTaskVars,
                 netVars, clientEnv, now, faults, msgs, sessBroken, nextSess,
                 sessOpen, wsConn, wsMutex, ctxDone, wg, gateVars, crashed,
                 readerLocals, gateHist, bcHist, fwdHist>>

(* Forward to all UDP clients; b.udpMutex.RUnlock() }                     *)
RBroadcastUDP ==
  /\ ~crashed /\ readerPc = "bc_udp"
  /\ bcUdpSnap' = udpClients
  /\ IF udpConn # "nil"
       THEN /\ bcUdpW' = UdpPass(udpClients, rdata, [a \in Addrs |-> <<>>])
            /\ udpMutex' = "free"
       ELSE UNCHANGED <<bcUdpW, udpMutex>>
  /\ readerPc' = "top"
  /\ UNCHANGED <<cfgVars, tcpMutex, mainVars, tcpTaskVars, udpTaskVars,
                 netVars, clientEnv, now, faults, msgs,
                 sessBroken, nextSess, sessOpen, wsConn, wsMutex, ctxDone, wg,
                 gateVars, crashed, readerLocals, gateHist, bcData,
                 bcTcpSnap, bcTcpW, bcGone, bcLog, fwdHist>>

ReaderStep ==
  \/ RTop \/ RReadNil \/ RReadErr \/ RErr
  \/ (\E t \in {"binary", "text"}, d \in Payloads : RReadMsg(t, d))
  \/ RRecordFailure \/ RCheck \/ RWaitCancel \/ RWaitTimer
  \/ RReconnectLock \/ RDialOk \/ RDialFail \/ RBackoffDone
  \/ RReset \/ RDispatch
  \/ RLockTcp \/ RBroadcastTCP \/ RLockUdp \/ RBroadcastUDP

(* --------------------------- writeToWebSocket ------------------------- *)
(* A write that does not look at b.wsConn first.                          *)
M_writeToWebSocket ==
  IF wsConn \in sessOpen /\ wsConn \notin sessBroken THEN "ok"
  ELSE "writeerror"

(* The outcome of writeToWebSocket: "notconnected" when b.wsConn is nil,  *)
(* otherwise that of WriteMessage on the current connection.              *)
writeToWebSocket ==
  IF wsConn = 0 THEN "notconnected"
  ELSE IF wsConn \in sessOpen /\ wsConn \notin sessBroken THEN "ok"
  ELSE "writeerror"

(* ------------------------ acceptTCPConnections ------------------------ *)
readerVars == <<readerPc, readerLocals>>
upVars == <<sessOpen, sessBroken, nextSess, wsConn, wsMutex, faults, msgs>>

(* A remote address can come again only after the connection that had it  *)
(* is gone at either end.                                                 *)
KeyFree(k) ==
  \A c \in Conns : connState[c] = "open" /\ ~peerClosed[c] => connKey[c] # k

(* Accept() returns a new connection.  Remote addresses are               *)
(* interchangeable names: the first connection is the one from "a".       *)
AAccept(c, k) ==
  /\ ~crashed /\ acceptPc = "accept" /\ tcpListener = "open"
  /\ connState[c] = "none" /\ c <= connLimit
  /\ \A c2 \in Conns : c2 < c => connState[c2] # "none"
  /\ c = 1 => k = "a"
  /\ KeyFree(k)
  /\ connState' = [connState EXCEPT ![c] = "open"]
  /\ connKey' = [connKey EXCEPT ![c] = k]
  /\ aconn' = c
  /\ acceptPc' = "lock_reg"
  /\ UNCHANGED <<cfgLocks, mainVars, readerVars, upVars, udpTaskVars, now,
                 limits, peerClosed, tcpIn, bytesSent, dgrams, tcpListener,
                 tcpClients, udpConn, udpClients, ctxDone, wg, gateVars,
                 crashed, hpc, hbuf, hn, herr, gateHist, bcHist, fwdHist>>

(* Accept() returns an error (the listener is closed): return when the    *)
(* context is done, otherwise log and continue.                           *)
AAcceptErr ==
  /\ ~crashed /\ acceptPc = "accept" /\ tcpListener = "closed"
  /\ IF ctxDone
       THEN acceptPc' = "done" /\ wg' = wg - 1
       ELSE UNCHANGED <<acceptPc, wg>>
  /\ UNCHANGED <<cfgLocks, mainVars, readerVars, upVars, udpTaskVars, now,
                 clientEnv, netVars, ctxDone, gateVars,
                 crashed, aconn, hpc, hbuf, hn, herr, gateHist, bcHist,
                 fwdHist>>

(* b.tcpMutex.Lock()                                                      *)
ALockTcp ==
  /\ ~crashed /\ acceptPc = "lock_reg" /\ WLockable(tcpMutex)
  /\ tcpMutex' = "write"
  /\ acceptPc' = "register"
  /\ UNCHANGED <<cfgVars, udpMutex, mainVars, readerVars, upVars,
                 udpTaskVars, now, clientEnv, netVars, ctxDone, wg, gateVars,
                 crashed, aconn, hpc, hbuf, hn, herr, gateHist, bcHist,
                 fwdHist>>

(* tcpClients[clientAddr] = conn; tcpMutex.Unlock(); wg.Add(1);           *)
(* go b.handleTCPClient(conn)                                             *)
ARegister ==
  /\ ~crashed /\ acceptPc = "register"
  /\ tcpClients' = [tcpClients EXCEPT ![connKey[aconn]] = aconn]
  /\ tcpMutex' = "free"
  /\ wg' = wg + 1
  /\ hpc' = [hpc EXCEPT ![aconn] = "top"]
  /\ acceptPc' = "accept"
  /\ UNCHANGED <<cfgVars, udpMutex, mainVars, readerVars, upVars,
                 udpTaskVars, now, clientEnv, connState, tcpListener,
                 udpConn, udpClients, ctxDone, gateVars, crashed, aconn,
                 hbuf, hn, herr, gateHist, bcHist, fwdHist>>

(* --------------------------- handleTCPClient -------------------------- *)
(* Top of the loop: select on ctx.Done(), default falls through.          *)
HTop(c) ==
  /\ ~crashed /\ hpc[c] = "top"
  /\ hpc' = [hpc EXCEPT ![c] = IF ctxDone THEN "close" ELSE "read"]
  /\ UNCHANGED <<cfgLocks, mainVars, readerVars, upVars, udpTaskVars, now,
                 clientEnv, netVars, ctxDone, wg, gateVars, crashed,
                 acceptPc, aconn, hbuf, hn, herr, gateHist, bcHist, fwdHist>>

(* buf[:n] with its bytes in the reverse order.                           *)
M_SliceRev(buf, n) == [i \in 1..n |-> buf[n + 1 - i]]

(* The whole buffer in the place of buf[:n].                              *)
M_Slice(buf, n) == buf

(* buf[:n]                                                                *)
Slice(buf, n) == SubSeq(buf, 1, n)

(* conn.Read(buf) returns n bytes, 1 <= n <= len(buf): they overwrite the *)
(* first n bytes of the buffer, which is reused from read to read.        *)
HReadData(c, n) ==
  /\ ~crashed /\ hpc[c] = "read" /\ connState[c] = "open"
  /\ n >= 1 /\ n <= Min(Len(tcpIn[c]), bufSize)
  /\ hbuf' = [hbuf EXCEPT ![c] =
               SubSeq(tcpIn[c], 1, n) \o SubSeq(@, n + 1, Len(@))]
  /\ hn' = [hn EXCEPT ![c] = n]
  /\ tcpIn' = [tcpIn EXCEPT ![c] = SubSeq(@, n + 1, Len(@))]
  /\ readLog' = [readLog EXCEPT ![c] = Append(@, SubSeq(tcpIn[c], 1, n))]
  /\ hpc' = [hpc EXCEPT ![c] = "fwd"]
  /\ UNCHANGED <<cfgLocks, mainVars, readerVars, upVars, udpTaskVars, now,
                 limits, peerClosed, bytesSent, dgrams, connKey, netVars,
                 ctxDone, wg,
                 gateVars, crashed, acceptPc, aconn, herr, gateHist, bcHist,
                 sentLog, udpSent, udgram>>

(* conn.Read(buf) returns io.EOF or an error: return.                     *)
HReadEnd(c) ==
  /\ ~crashed /\ hpc[c] = "read"
  /\ ~(connState[c] = "open" /\ ~(tcpIn[c] = <<>> /\ peerClosed[c]))
  /\ hpc' = [hpc EXCEPT ![c] = "close"]
  /\ UNCHANGED <<cfgLocks, mainVars, readerVars, upVars, udpTaskVars, now,
                 clientEnv, netVars, ctxDone, wg, gateVars, crashed,
                 acceptPc, aconn, hbuf, hn, herr, gateHist, bcHist, fwdHist>>

(* b.writeToWebSocket(buf[:n]), first half: b.wsMutex.Lock().             *)
HLock(c) ==
  /\ ~crashed /\ hpc[c] = "fwd" /\ Lockable(wsMutex)
  /\ wsMutex' = "tcp"
  /\ hpc' = [hpc EXCEPT ![c] = "send"]
  /\ UNCHANGED <<cfgLocks, mainVars, readerVars, sessOpen, sessBroken,
                 nextSess, wsConn, faults, msgs, udpTaskVars, now,
                 clientEnv, netVars, ctxDone, wg, gateVars, crashed,
                 acceptPc, aconn, hbuf, hn, herr, gateHist, bcHist, fwdHist>>

(* b.writeToWebSocket(buf[:n]), second half: the nil check, WriteMessage  *)
(* and the deferred Unlock; on an error the forwarder returns.            *)
HForward(c) ==
  /\ ~crashed /\ hpc[c] = "send"
  /\ wsMutex' = "free"
  /\ herr' = [herr EXCEPT ![c] = writeToWebSocket]
  /\ IF writeToWebSocket = "ok"
       THEN /\ sentLog' = [sentLog EXCEPT ![c] =
                            Append(@, Slice(hbuf[c], hn[c]))]
            /\ hpc' = [hpc EXCEPT ![c] = "top"]
       ELSE /\ hpc' = [hpc EXCEPT ![c] = "close"]
            /\ UNCHANGED sentLog
  /\ UNCHANGED <<cfgLocks, mainVars, readerVars, sessOpen, sessBroken,
                 nextSess, wsConn, faults, msgs, udpTaskVars, now,
                 clientEnv, netVars, ctxDone, wg, gateVars, crashed,
                 acceptPc, aconn, hbuf, hn, gateHist, bcHist, readLog, udpSent,
                 udgram>>

(* The deferred function, first part: conn.Close().                       *)
HClose(c) ==
  /\ ~crashed /\ hpc[c] = "close"
  /\ connState' = [connState EXCEPT ![c] = "closed"]
  /\ hpc' = [hpc EXCEPT ![c] = "lock_del"]
  /\ UNCHANGED <<cfgLocks, mainVars, readerVars, upVars, udpTaskVars, now,
                 clientEnv, tcpListener, tcpClients, udpConn, udpClients,
                 ctxDone, wg, gateVars, crashed, acceptPc, aconn, hbuf, hn, herr,
                 gateHist, bcHist, fwdHist>>

(* A delete that removes nothing.                                         *)
M_delete(clients, k) == clients

(* delete(b.tcpClients, clientAddr): the map after it.                    *)
delete(clients, k) == [clients EXCEPT ![k] = NoConn]

(* The deferred function, second part: b.tcpMutex.Lock().                 *)
HLockTcp(c) ==
  /\ ~crashed /\ hpc[c] = "lock_del" /\ WLockable(tcpMutex)
  /\ tcpMutex' = "write"
  /\ hpc' = [hpc EXCEPT ![c] = "del"]
  /\ UNCHANGED <<cfgVars, udpMutex, mainVars, readerVars, upVars,
                 udpTaskVars, now, clientEnv, netVars, ctxDone, wg, gateVars,
                 crashed, acceptPc, aconn, hbuf, hn, herr, gateHist, bcHist,
                 fwdHist>>

(* The deferred function, third part: delete(b.tcpClients, clientAddr);   *)
(* b.tcpMutex.Unlock(); then the deferred wg.Done().                      *)
HDelete(c) ==
  /\ ~crashed /\ hpc[c] = "del"
  /\ tcpClients' = delete(tcpClients, connKey[c])
  /\ tcpMutex' = "free"
  /\ wg' = wg - 1
  /\ hpc' = [hpc EXCEPT ![c] = "done"]
  /\ UNCHANGED <<cfgVars, udpMutex, mainVars, readerVars, upVars, udpTaskVars, now,
                 clientEnv, connState, tcpListener, udpConn, udpClients,
                 ctxDone, gateVars, crashed, acceptPc, aconn, hbuf, hn, herr,
                 gateHist, bcHist, fwdHist>>

TcpStep ==
  \/ (\E c \in Conns, k \in Keys : AAccept(c, k))
  \/ ALockTcp \/ ARegister
  \/ (\E c \in Conns : HTop(c))
  \/ (\E c \in Conns, n \in 1..MaxBytes : HReadData(c, n))
  \/ (\E c \in Conns : HReadEnd(c))
  \/ (\E c \in Conns : HLock(c))
  \/ (\E c \in Conns : HForward(c))
  \/ (\E c \in Conns : HClose(c))
  \/ (\E c \in Conns : HLockTcp(c))
  \/ (\E c \in Conns : HDelete(c))

(* ------------------------------- readUDP ------------------------------ *)
tcpVars == <<tcpTaskVars, connState, tcpListener, tcpClients, peerClosed,
             tcpIn, bytesSent, connKey, limits>>

(* Top of the loop: select on ctx.Done(), default falls through.          *)
UTop ==
  /\ ~crashed /\ udpPc = "top"
  /\ IF ctxDone
       THEN udpPc' = "done" /\ wg' = wg - 1
       ELSE udpPc' = "read" /\ UNCHANGED wg
  /\ UNCHANGED <<cfgLocks, mainVars, readerVars, upVars, tcpVars, now, dgrams,
                 udpConn, udpClients, ctxDone, gateVars, crashed, ubuf, uaddr,
                 gateHist, bcHist, fwdHist>>

(* ReadFromUDP(buf) returns a datagram from addr; the payload is cut to   *)
(* the buffer.                                                            *)
URead(a, d) ==
  /\ ~crashed /\ udpPc = "read" /\ udpConn = "open"
  /\ dgrams > 0
  /\ udpClients = {} => a = "e"
  /\ dgrams' = dgrams - 1
  /\ uaddr' = a
  /\ ubuf' = SubSeq(d, 1, Min(Len(d), bufSize))
  /\ udgram' = d
  /\ udpPc' = "lock_track"
  /\ UNCHANGED <<cfgLocks, mainVars, readerVars, upVars, tcpVars, now,
                 udpConn, udpClients, ctxDone, wg, gateVars, crashed,
                 gateHist, bcHist, readLog, sentLog, udpSent>>

(* ReadFromUDP returns an error (the socket is closed): return when the   *)
(* context is done, otherwise log and continue.                           *)
UReadErr ==
  /\ ~crashed /\ udpPc = "read" /\ udpConn = "closed"
  /\ IF ctxDone
       THEN udpPc' = "done" /\ wg' = wg - 1
       ELSE UNCHANGED <<udpPc, wg>>
  /\ UNCHANGED <<cfgLocks, mainVars, readerVars, upVars, tcpVars, now, dgrams,
                 udpConn, udpClients, ctxDone, gateVars, crashed, ubuf, uaddr,
                 gateHist, bcHist, fwdHist>>

(* A registry that keeps only the address seen last.                      *)
M_track(clients, a) == {a}

(* if _, exists := b.udpClients[clientAddr]; !exists { add }: the         *)
(* registry after it.                                                     *)
track(clients, a) == clients \cup {a}

(* b.udpMutex.Lock()                                                      *)
ULockUdp ==
  /\ ~crashed /\ udpPc = "lock_track" /\ WLockable(udpMutex)
  /\ udpMutex' = "write"
  /\ udpPc' = "track"
  /\ UNCHANGED <<cfgVars, tcpMutex, mainVars, readerVars, upVars, tcpVars,
                 now, dgrams, udpConn, udpClients, ctxDone, wg, gateVars,
                 crashed, ubuf, uaddr, gateHist, bcHist, fwdHist>>

(* Track the UDP client: add the address if it is new;                    *)
(* b.udpMutex.Unlock().                                                   *)
UTrack ==
  /\ ~crashed /\ udpPc = "track"
  /\ udpClients' = track(udpClients, uaddr)
  /\ udpMutex' = "free"
  /\ udpPc' = "fwd"
  /\ UNCHANGED <<cfgVars, tcpMutex, mainVars, readerVars, upVars, tcpVars, now, dgrams,
                 udpConn, ctxDone, wg, gateVars, crashed, ubuf, uaddr,
                 gateHist, bcHist, fwdHist>>

(* b.writeToWebSocket(buf[:n]), first half: b.wsMutex.Lock().             *)
ULock ==
  /\ ~crashed /\ udpPc = "fwd" /\ Lockable(wsMutex)
  /\ wsMutex' = "udp"
  /\ udpPc' = "send"
  /\ UNCHANGED <<cfgLocks, mainVars, readerVars, sessOpen, sessBroken,
                 nextSess, wsConn, faults, msgs, tcpVars, now, dgrams,
                 udpConn, udpClients, ctxDone, wg, gateVars, crashed, ubuf,
                 uaddr, gateHist, bcHist, fwdHist>>

(* b.writeToWebSocket(buf[:n]), second half: the nil check, WriteMessage  *)
(* and the deferred Unlock; an error is logged and the loop goes on.      *)
UForward ==
  /\ ~crashed /\ udpPc = "send"
  /\ wsMutex' = "free"
  /\ udpSent' = IF writeToWebSocket = "ok" THEN Append(udpSent, ubuf)
                ELSE udpSent
  /\ udpPc' = "top"
  /\ UNCHANGED <<cfgLocks, mainVars, readerVars, sessOpen, sessBroken,
                 nextSess, wsConn, faults, msgs, tcpVars, now, dgrams,
                 udpConn, udpClients, ctxDone, wg, gateVars, crashed, ubuf,
                 uaddr, gateHist, bcHist, readLog, sentLog, udgram>>

UdpStep ==
  \/ UTop \/ UReadErr \/ ULockUdp \/ UTrack \/ ULock \/ UForward
  \/ (\E a \in Addrs, d \in Payloads : URead(a, d))

(* ----------------------------- environment ---------------------------- *)
progVars == <<sessOpen, connState, wsConn, wsMutex, tcpListener, tcpClients,
              udpConn, udpClients, ctxDone, wg, gateVars, mainVars, crashed,
              readerVars, tcpTaskVars, udpTaskVars>>

(* Time passes.                                                           *)
Tick ==
  /\ now + TickStep <= horizon
  /\ now' = now + TickStep
  /\ UNCHANGED <<cfgLocks, progVars, faults, msgs, sessBroken, nextSess,
                 clientEnv, gateHist, bcHist, fwdHist>>

(* The upstream drops the live session: reads and writes on it fail.      *)
Drop ==
  /\ ~crashed /\ faults > 0
  /\ wsConn \in sessOpen /\ wsConn \notin sessBroken
  /\ sessBroken' = sessBroken \cup {wsConn}
  /\ faults' = faults - 1
  /\ UNCHANGED <<cfgLocks, progVars, now, msgs, nextSess, clientEnv,
                 gateHist, bcHist, fwdHist>>

(* Time passes while the read loop sleeps on a timer.                     *)
TickWaiting ==
  /\ readerPc \in {"wait", "backoff"} /\ now < rdeadline
  /\ Tick

(* The upstream has one more message to deliver.                          *)
Produce ==
  /\ ~crashed /\ msgs < MaxMsgs
  /\ msgs' = msgs + 1
  /\ UNCHANGED <<cfgLocks, progVars, now, faults, sessBroken, nextSess,
                 clientEnv, gateHist, bcHist, fwdHist>>

(* A TCP client sends one byte.  The bridge never looks into the bytes,   *)
(* so each client sends the stream 1, 2, ...: any loss, repetition,       *)
(* reordering or change of a byte shows.                                  *)
ClientSend(c) ==
  /\ ~crashed /\ connState[c] = "open" /\ ~peerClosed[c]
  /\ bytesSent[c] < byteLimit
  /\ bytesSent' = [bytesSent EXCEPT ![c] = @ + 1]
  /\ tcpIn' = [tcpIn EXCEPT ![c] = Append(@, bytesSent[c] + 1)]
  /\ UNCHANGED <<cfgLocks, progVars, now, limits, faults, msgs, sessBroken,
                 nextSess, peerClosed, dgrams, connKey, gateHist, bcHist,
                 fwdHist>>

(* A TCP client closes its end.                                           *)
ClientClose(c) ==
  /\ ~crashed /\ connState[c] = "open" /\ ~peerClosed[c]
  /\ peerClosed' = [peerClosed EXCEPT ![c] = TRUE]
  /\ UNCHANGED <<cfgLocks, progVars, now, limits, faults, msgs, sessBroken,
                 nextSess, tcpIn, bytesSent, dgrams, connKey, gateHist,
                 bcHist, fwdHist>>

EnvStep ==
  \/ Tick \/ Drop
  \/ (\E c \in Conns : ClientSend(c))
  \/ (\E c \in Conns : ClientClose(c))

(* ----------------------------- pollForToken --------------------------- *)
pollRest == <<cfgTCP, cfgUDP, cliVars, pickVars, relayVars, deviceResp>>

(* interval := Interval * time.Second; expires := now + ExpiresIn seconds *)
PollStart ==
  /\ pollPc = "start"
  /\ interval' = deviceResp.Interval
  /\ expires' = pollNow + deviceResp.ExpiresIn
  /\ pollPc' = "newticker"
  /\ UNCHANGED <<pollRest, pollNow, pollCancelled, ticker, pollToken,
                 pollErr, lastResp, pollCount>>

(* ticker := time.NewTicker(interval): panics on a non-positive interval. *)
PollNewTicker ==
  /\ pollPc = "newticker"
  /\ IF interval <= 0
       THEN pollPc' = "panic" /\ UNCHANGED ticker
       ELSE pollPc' = "select" /\ ticker' = pollNow + interval
  /\ UNCHANGED <<pollRest, pollNow, pollCancelled, interval, expires,
                 pollToken, pollErr, lastResp, pollCount>>

(* case <-ctx.Done(): return "", ctx.Err()                                *)
PollCtxDone ==
  /\ pollPc = "select" /\ pollCancelled
  /\ pollPc' = "done"
  /\ pollToken' = "" /\ pollErr' = [type |-> "final", code |-> "ctx"]
  /\ UNCHANGED <<pollRest, pollNow, pollCancelled, interval, expires, ticker,
                 lastResp, pollCount>>

(* case <-ticker.C with time.Now().After(expires): device code expired.   *)
PollExpired ==
  /\ pollPc = "select" /\ TickReady /\ After(pollNow, expires)
  /\ pollPc' = "done"
  /\ pollToken' = "" /\ pollErr' = [type |-> "final", code |-> "expired"]
  /\ ticker' = NextTick
  /\ UNCHANGED <<pollRest, pollNow, pollCancelled, interval, expires,
                 lastResp, pollCount>>

(* case <-ticker.C before the expiry: one attemptTokenRequest, answered   *)
(* by r, and the switch on its error. A request made on a cancelled       *)
(* context fails in the transport.                                        *)
PollAttempt(r) ==
  /\ pollPc = "select" /\ TickReady /\ ~After(pollNow, expires)
  /\ pollCount < MaxPolls
  /\ pollCancelled => r.kind = "transport"
  /\ lastResp' = r
  /\ pollCount' = pollCount + 1
  /\ LET a == attemptTokenRequest(r)
     IN IF a.err = NoErr
          THEN /\ pollPc' = "done"
               /\ pollToken' = a.token /\ pollErr' = NoErr
               /\ ticker' = NextTick
               /\ UNCHANGED interval
        ELSE IF a.err.type = "token" /\ a.err.code = "slow_down"
          THEN /\ interval' = interval + slowDown
               /\ ticker' = pollNow + interval'
               /\ UNCHANGED <<pollPc, pollToken, pollErr>>
        ELSE IF a.err.type = "token" /\ a.err.code # "authorization_pending"
          THEN /\ pollPc' = "done"
               /\ pollToken' = ""
               /\ pollErr' =
                    [type |-> "final",
                     code |-> IF a.err.code = "expired_token" THEN "expired"
                              ELSE IF a.err.code = "access_denied"
                                THEN "denied"
                              ELSE "authorization"]
               /\ ticker' = NextTick
               /\ UNCHANGED interval
        ELSE /\ ticker' = NextTick
             /\ UNCHANGED <<pollPc, pollToken, pollErr, interval>>
  /\ UNCHANGED <<pollRest, pollNow, pollCancelled, expires>>

(* The caller's context is cancelled.                                     *)
PollCancel ==
  /\ pollPc \in {"start", "newticker", "select"} /\ ~pollCancelled
  /\ pollCancelled' = TRUE
  /\ UNCHANGED <<pollRest, pollNow, pollPc, interval, expires, ticker,
                 pollToken, pollErr, lastResp, pollCount>>

(* Time passes.                                                           *)
PollTick ==
  /\ pollPc \in {"start", "newticker", "select"}
  /\ pollNow + PollStep <= MaxPollTime
  /\ pollNow' = pollNow + PollStep
  /\ UNCHANGED <<pollRest, pollCancelled, pollPc, interval, expires, ticker,
                 pollToken, pollErr, lastResp, pollCount>>

(* ------------------------------ PickDevice ---------------------------- *)
pickRest == <<cfgTCP, cfgUDP, cliVars, pollVars, relayVars, devices>>

(* The empty list, the single device, or the interactive picker.          *)
PickStart ==
  /\ pickPc = "start"
  /\ IF Len(devices) = 0
       THEN pickPc' = "error" /\ UNCHANGED <<pickModel, pickResult>>
     ELSE IF Len(devices) = 1
       THEN /\ pickPc' = "returned" /\ pickResult' = devices[1]
            /\ UNCHANGED pickModel
     ELSE /\ pickPc' = "run" /\ pickModel' = NewModel
          /\ UNCHANGED pickResult
  /\ UNCHANGED <<pickRest, pickQuit, pickKeys>>

(* The program hands a key message to Update; a key typed before the quit *)
(* message is processed is handed over as well.                           *)
PickKey(key) ==
  /\ pickPc = "run" /\ pickKeys < MaxKeys
  /\ LET u == Update(pickModel, Len(devices), key)
     IN /\ pickModel' = u.m
        /\ pickQuit' = (pickQuit \/ u.quit)
  /\ pickKeys' = pickKeys + 1
  /\ UNCHANGED <<pickRest, pickPc, pickResult>>

(* p.Run() returns the final model after tea.Quit.                        *)
PickRunEnd ==
  /\ pickPc = "run" /\ pickQuit
  /\ pickPc' = "result"
  /\ UNCHANGED <<pickRest, pickModel, pickQuit, pickKeys, pickResult>>

(* p.Run() returns an error: fallbackPicker.                              *)
PickRunErr ==
  /\ pickPc = "run"
  /\ pickPc' = "fallback"
  /\ UNCHANGED <<pickRest, pickModel, pickQuit, pickKeys, pickResult>>

(* fallbackPicker: a number read from the terminal; asked again until it  *)
(* is between 1 and len(devices).                                         *)
PickFallback(selection) ==
  /\ pickPc = "fallback"
  /\ IF selection < 1 \/ selection > Len(devices)
       THEN UNCHANGED <<pickPc, pickResult>>
       ELSE pickPc' = "returned" /\ pickResult' = devices[selection]
  /\ UNCHANGED <<pickRest, pickModel, pickQuit, pickKeys>>

(* if !result.done || result.selected < 0: error; otherwise               *)
(* &devices[result.selected], which panics outside the list.              *)
PickResult ==
  /\ pickPc = "result"
  /\ IF ~pickModel.done \/ pickModel.selected < 0
       THEN pickPc' = "error" /\ UNCHANGED pickResult
     ELSE IF pickModel.selected >= Len(devices)
       THEN pickPc' = "panic" /\ UNCHANGED pickResult
     ELSE /\ pickPc' = "returned"
          /\ pickResult' = devices[pickModel.selected + 1]
  /\ UNCHANGED <<pickRest, pickModel, pickQuit, pickKeys>>

(* --------------------------- specifications -------------------------- *)
(* The upstream link and the lifecycle: a bridge with no listener, an     *)
(* upstream that drops sessions and refuses dials, a running clock,       *)
(* Stop() called up to MaxStops times.                                    *)
Init ==
  InitWith({FALSE}, {FALSE}, MaxTime, MaxFaults, MaxMsgs, 0, 0, 0, MaxStops)

Next ==
  \/ StartConnectOk \/ StartConnectFail \/ StartTCP \/ StartUDP
  \/ StartReader
  \/ StopCancel \/ StopWsCheck \/ StopWsClose \/ StopListener
  \/ StopLockTcp \/ StopClients \/ StopUDP \/ StopWait
  \/ ReaderStep
  \/ Tick \/ Drop

Spec == Init /\ [][Next]_vars

(* Fan-out: both listeners, TCP clients that come and go, datagrams, a    *)
(* reliable upstream that delivers messages.                              *)
InitFan ==
  InitWith({TRUE}, {TRUE}, 0, 0, MaxMsgs, MaxDgrams, MaxConns, 0, 0)

NextFan ==
  \/ StartConnectOk \/ StartConnectFail \/ StartTCP \/ StartTCPFail
  \/ StartUDP \/ StartUDPFail \/ StartReader
  \/ RTop
  \/ (\E t \in {"binary", "text"}, d \in Payloads : RReadMsg(t, d))
  \/ RReset \/ RDispatch
  \/ RLockTcp \/ RBroadcastTCP \/ RLockUdp \/ RBroadcastUDP
  \/ (\E c \in Conns, k \in Keys : AAccept(c, k))
  \/ ALockTcp \/ ARegister
  \/ (\E c \in Conns : HTop(c))
  \/ (\E c \in Conns : HReadEnd(c))
  \/ (\E c \in Conns : HClose(c))
  \/ (\E c \in Conns : HLockTcp(c))
  \/ (\E c \in Conns : HDelete(c))
  \/ UTop \/ ULockUdp \/ UTrack \/ ULock \/ UForward
  \/ (\E a \in Addrs, d \in Payloads : URead(a, d))
  \/ (\E c \in Conns : ClientClose(c))

SpecFan == InitFan /\ [][NextFan]_vars

(* Forwarding: TCP clients that send bytes, and an upstream that either   *)
(* drops sessions and refuses dials or delivers messages.                 *)
InitFwd ==
  \/ InitWith({TRUE}, {FALSE}, 0, FwdFaults, 0, 0, MaxConns, MaxBytes, 0)
  \/ InitWith({TRUE}, {FALSE}, 0, 0, MaxMsgs, 0, MaxConns, BcBytes, 0)

NextFwd ==
  \/ StartConnectOk \/ StartConnectFail \/ StartTCP \/ StartTCPFail
  \/ StartUDP \/ StartReader
  \/ RTop \/ RReadErr \/ RErr \/ RRecordFailure \/ RCheck
  \/ RReconnectLock \/ RDialOk \/ RDialFail
  \/ (\E t \in {"binary", "text"}, d \in Payloads : RReadMsg(t, d))
  \/ RReset \/ RDispatch
  \/ RLockTcp \/ RBroadcastTCP \/ RLockUdp \/ RBroadcastUDP
  \/ TcpStep
  \/ Drop
  \/ (\E c \in Conns : ClientSend(c))
  \/ (\E c \in Conns : ClientClose(c))

SpecFwd == InitFwd /\ [][NextFwd]_vars

(* The command line up to the device selection, for every combination of *)
(* flags, environment, token file and API URL.                            *)
InitCli ==
  /\ NewBridge({TRUE}, {FALSE}, 0, 0, 0, 0, 0, 0, 0)
  /\ flagTcp \in TcpFlags /\ envTcp \in TcpEnvs
  /\ doLogin \in BOOLEAN /\ doLogout \in BOOLEAN
  /\ cfgApi \in ApiUrls /\ tokenFile \in StoredTokens
  /\ cliNow \in 0..1 /\ cliPc = "start" /\ tcpListen = ""
  /\ storedToken = NoToken /\ accessToken = "none" /\ authRan = FALSE
  /\ PollOff /\ PickOff

NextCli ==
  \/ CliParse \/ CliLogout \/ CliLogin \/ CliLoad \/ CliCheck
  \/ CliAuth \/ CliSave \/ CliTick

SpecCli == InitCli /\ [][NextCli]_vars

(* A device-code polling run, for every device code response, every      *)
(* answer to each token request and a context cancelled at any time.      *)
InitPoll ==
  /\ NewBridge({TRUE}, {FALSE}, 0, 0, 0, 0, 0, 0, 0) /\ CliOff /\ PickOff
  /\ deviceResp \in DeviceCodeResponses
  /\ pollNow = 0 /\ pollCancelled = FALSE /\ pollPc = "start"
  /\ interval = 0 /\ expires = 0 /\ ticker = 0
  /\ pollToken = "" /\ pollErr = NoErr /\ lastResp = NoResp /\ pollCount = 0

NextPoll ==
  \/ PollStart \/ PollNewTicker \/ PollCtxDone \/ PollExpired
  \/ (\E r \in Responses : PollAttempt(r))
  \/ PollCancel \/ PollTick

SpecPoll == InitPoll /\ [][NextPoll]_vars

(* PickDevice on every device list, with every sequence of key messages.  *)
InitPick ==
  /\ NewBridge({TRUE}, {FALSE}, 0, 0, 0, 0, 0, 0, 0) /\ CliOff /\ PollOff
  /\ devices \in DeviceLists
  /\ pickModel = NewModel /\ pickPc = "start"
  /\ pickQuit = FALSE /\ pickKeys = 0 /\ pickResult = NoDevice

NextPick ==
  \/ PickStart
  \/ (\E key \in KeyMsgs : PickKey(key))
  \/ PickRunEnd \/ PickRunErr
  \/ (\E selection \in 0..(MaxDevices + 1) : PickFallback(selection))
  \/ PickResult

SpecPick == InitPick /\ [][NextPick]_vars

(* Ordering: two TCP clients that send their bytes while the upstream     *)
(* delivers its messages; the upstream numbers its messages, the payload  *)
(* of each being the count of those still to come.                        *)
InitFifo ==
  InitWith({TRUE}, {FALSE}, 0, 0, FifoMsgs, 0, MaxConns, FifoBytes, 0)

NextFifo ==
  \/ StartConnectOk \/ StartConnectFail \/ StartTCP \/ StartTCPFail
  \/ StartUDP \/ StartReader
  \/ RTop
  \/ (\E t \in {"binary", "text"} : RReadMsg(t, <<msgs>>))
  \/ RReset \/ RDispatch
  \/ RLockTcp \/ RBroadcastTCP \/ RLockUdp \/ RBroadcastUDP
  \/ TcpStep
  \/ (\E c \in Conns : ClientSend(c))
  \/ (\E c \in Conns : ClientClose(c))

SpecFifo == InitFifo /\ [][NextFifo]_vars

(* The UDP side alone: endpoints that send short and long datagrams, an   *)
(* upstream that delivers messages and may drop a session.                *)
InitDgram ==
  InitWith({FALSE}, {TRUE}, 0, DgramFaults, MaxMsgs, DgramCount, 0, 0, 0)

NextDgram ==
  \/ StartConnectOk \/ StartConnectFail \/ StartTCP
  \/ StartUDP \/ StartUDPFail \/ StartReader
  \/ RTop \/ RReadErr \/ RErr \/ RRecordFailure \/ RCheck
  \/ RReconnectLock \/ RDialOk
  \/ (\E t \in {"binary", "text"}, d \in Payloads : RReadMsg(t, d))
  \/ RReset \/ RDispatch
  \/ RLockTcp \/ RBroadcastTCP \/ RLockUdp \/ RBroadcastUDP
  \/ UTop \/ ULockUdp \/ UTrack \/ ULock \/ UForward
  \/ (\E a \in Addrs, d \in Datagrams : URead(a, d))
  \/ Drop

SpecDgram == InitDgram /\ [][NextDgram]_vars

(* Contention for the upstream: TCP clients and UDP endpoints that send,  *)
(* and an upstream that drops a session so that the read loop reconnects. *)
InitSend ==
  InitWith({TRUE}, {TRUE}, 0, SendFaults, 0, SendDgrams, MaxConns,
           SendBytes, 0)

NextSend ==
  \/ StartConnectOk \/ StartConnectFail \/ StartTCP \/ StartTCPFail
  \/ StartUDP \/ StartUDPFail \/ StartReader
  \/ RTop \/ RReadErr \/ RErr \/ RRecordFailure \/ RCheck
  \/ RReconnectLock \/ RDialOk \/ RDialFail
  \/ TcpStep
  \/ UTop \/ ULockUdp \/ UTrack \/ ULock \/ UForward
  \/ (\E a \in Addrs, d \in Payloads : URead(a, d))
  \/ Drop
  \/ (\E c \in Conns : ClientSend(c))
  \/ (\E c \in Conns : ClientClose(c))

SpecSend == InitSend /\ [][NextSend]_vars

(* Shutdown: Stop() at any moment, against TCP clients that come and go,  *)
(* or against the UDP loop and broadcasts, or against a reconnect and a   *)
(* forwarding TCP client, or against a TCP client and a broadcast.        *)
InitStop ==
  \/ InitWith({TRUE}, {FALSE}, 0, 0, 0, 0, MaxConns, 0, StopCalls)
  \/ InitWith({TRUE}, {FALSE}, 0, 0, MaxMsgs, 0, StopConns, 0, StopCalls)
  \/ InitWith({FALSE}, {TRUE}, 0, 0, MaxMsgs, StopDgrams, 0, 0, StopCalls)
  \/ InitWith({TRUE}, {FALSE}, 0, StopFaults, 0, 0, StopConns, StopBytes,
              StopCalls)

NextStop ==
  \/ MainStep
  \/ RTop \/ RReadErr \/ RErr \/ RRecordFailure \/ RCheck
  \/ RReconnectLock \/ RDialOk
  \/ (\E t \in {"binary", "text"}, d \in Payloads : RReadMsg(t, d))
  \/ RReset \/ RDispatch
  \/ RLockTcp \/ RBroadcastTCP \/ RLockUdp \/ RBroadcastUDP
  \/ TcpStep \/ AAcceptErr
  \/ UdpStep
  \/ Drop
  \/ (\E c \in Conns : ClientSend(c))
  \/ (\E c \in Conns : ClientClose(c))

SpecStop == InitStop /\ [][NextStop]_vars

(* The same, with every goroutine of the bridge scheduled again and       *)
(* again; the upstream and the clients are free to stay silent.           *)
ReaderHalt ==
  \/ RTop \/ RReadErr \/ RErr \/ RRecordFailure \/ RCheck
  \/ RReconnectLock \/ RDialOk
  \/ (\E t \in {"binary", "text"}, d \in Payloads : RReadMsg(t, d))
  \/ RReset \/ RDispatch
  \/ RLockTcp \/ RBroadcastTCP \/ RLockUdp \/ RBroadcastUDP

AcceptHalt ==
  \/ (\E c \in Conns, k \in Keys : AAccept(c, k))
  \/ ALockTcp \/ ARegister \/ AAcceptErr

HandlerHalt(c) ==
  \/ HTop(c) \/ HReadEnd(c) \/ HLock(c) \/ HForward(c) \/ HClose(c)
  \/ HLockTcp(c) \/ HDelete(c)
  \/ (\E n \in 1..MaxBytes : HReadData(c, n))

SpecHalt ==
  /\ InitStop /\ [][NextStop]_vars
  /\ WF_vars(MainStep) /\ WF_vars(ReaderHalt) /\ WF_vars(AcceptHalt)
  /\ WF_vars(UdpStep) /\ \A c \in Conns : WF_vars(HandlerHalt(c))

(* Recovery: Stop() is not called, the upstream drops sessions and       *)
(* refuses dials a bounded number of times and from then on accepts       *)
(* connections and delivers messages; the tasks of the bridge, the clock  *)
(* of a sleeping read loop and the upstream's deliveries keep going.      *)
InitLive ==
  InitWith({FALSE}, {FALSE}, MaxTime, LiveFaults, 0, 0, 0, 0, 0)

StartLive ==
  \/ StartConnectOk \/ StartConnectFail \/ StartTCP \/ StartUDP
  \/ StartReader

ReaderLive ==
  \/ RTop \/ RReadNil \/ RReadErr \/ RErr
  \/ (\E t \in {"binary", "text"}, d \in Payloads : RReadMsg(t, d))
  \/ RRecordFailure \/ RCheck \/ RWaitTimer
  \/ RReconnectLock \/ RDialOk \/ RDialFail \/ RBackoffDone
  \/ RReset \/ RDispatch
  \/ RLockTcp \/ RBroadcastTCP \/ RLockUdp \/ RBroadcastUDP

NextLive == StartLive \/ ReaderLive \/ TickWaiting \/ Produce \/ Drop

SpecLive ==
  /\ InitLive /\ [][NextLive]_vars
  /\ WF_vars(StartLive) /\ WF_vars(ReaderLive)
  /\ WF_vars(TickWaiting) /\ WF_vars(Produce)

(* ------------------------------- claims ------------------------------- *)
Front(q) == SubSeq(q, 1, Len(q) - 1)

(* C1: fan-out completeness.  In the broadcast of a binary message every  *)
(* TCP client registered at the TCP pass and every UDP endpoint           *)
(* registered at the UDP pass is written exactly once, with the payload   *)
(* of the message, and no other destination is written.  Once the payload *)
(* is in hand for the UDP pass, the TCP pass has been made with it.       *)
C1_FanOutComplete ==
  /\ \A c \in Conns :
       /\ Len(bcTcpW[c]) = IF c \in bcTcpSnap THEN 1 ELSE 0
       /\ \A i \in DOMAIN bcTcpW[c] : bcTcpW[c][i][1] = bcData
  /\ \A a \in Addrs :
       /\ Len(bcUdpW[a]) = IF a \in bcUdpSnap THEN 1 ELSE 0
       /\ \A i \in DOMAIN bcUdpW[a] : bcUdpW[a][i][1] = bcData
  /\ readerPc \in {"lock_udp", "bc_udp"} => bcData = rdata
  /\ readerPc \in {"lock_tcp", "bc_tcp"} => rtype = "binary"

(* A broadcast has been completed to two TCP clients and two UDP          *)
(* endpoints.                                                             *)
C1_Witness ==
  /\ readerPc = "top" /\ rtype = "binary" /\ bcData = rdata
  /\ Cardinality(bcTcpSnap) = 2 /\ Cardinality(bcUdpSnap) = 2
  /\ \A c \in bcTcpSnap : Len(bcTcpW[c]) = 1
  /\ \A a \in bcUdpSnap : Len(bcUdpW[a]) = 1

(* C2 as stated: every successful read from a TCP client has, once the    *)
(* forwarding step is over, produced exactly one upstream binary message  *)
(* with the bytes read; every write of a broadcast carries the payload    *)
(* received.                                                              *)
C2_EveryReadBecomesAMessage ==
  /\ \A c \in Conns :
       hpc[c] \notin {"fwd", "send"} => sentLog[c] = readLog[c]
  /\ \A c \in Conns : \A i \in DOMAIN bcTcpW[c] : bcTcpW[c][i][1] = bcData

(* C2, amended: the chunks read from a client are passed to               *)
(* writeToWebSocket one by one and unchanged; each becomes exactly one    *)
(* upstream binary message with the same bytes when the write succeeds,   *)
(* and none when it fails, in which case the forwarder stops reading.     *)
C2_ByteFidelity ==
  /\ \A c \in Conns :
       /\ sentLog[c] = IF \/ hpc[c] \in {"fwd", "send"}
                           \/ herr[c] \notin {"nil", "ok"}
                         THEN Front(readLog[c]) ELSE readLog[c]
       /\ hpc[c] \in {"fwd", "send"} =>
            Slice(hbuf[c], hn[c]) = readLog[c][Len(readLog[c])]
       /\ herr[c] \notin {"nil", "ok"} =>
            hpc[c] \in {"close", "lock_del", "del", "done"}
  /\ \A c \in Conns : \A i \in DOMAIN bcTcpW[c] : bcTcpW[c][i][1] = bcData

(* A client's bytes went upstream as messages, the last read shorter than *)
(* the one before it, while another read found no usable session.         *)
C2_Witness ==
  \E c, d \in Conns :
    /\ Len(sentLog[c]) >= 2 /\ sentLog[c] = readLog[c]
    /\ hn[c] < Len(hbuf[c])
    /\ herr[d] = "notconnected" /\ Len(readLog[d]) = Len(sentLog[d]) + 1

(* C4 as stated: until Stop() is called the read loop neither ends nor    *)
(* crashes, and it calls ReadMessage only with a connection in hand.      *)
C4_ReadLoopSurvives ==
  /\ stops = 0 => readerPc \notin {"done", "panicked"}
  /\ readerPc = "read" => wsConn # 0

(* C5: gate threshold.  A failure recorded while the circuit is closed    *)
(* leaves it closed below the threshold and opens it at the threshold,    *)
(* with circuitOpenUntil = the time of that failure + circuitOpenPeriod.  *)
C5_GateThreshold ==
  (gateOp = "failure" /\ gateFrom = "closed") =>
    /\ failureCount = gateCnt + 1
    /\ gateCnt + 1 < failureThreshold => circuitState = "closed"
    /\ gateCnt + 1 = failureThreshold =>
         /\ circuitState = "open"
         /\ circuitOpenUntil = lastFailureTime + circuitOpenPeriod
    /\ gateCnt + 1 <= failureThreshold

(* The third failure in a row has opened the circuit, at a time after 0.  *)
C5_Witness ==
  /\ gateOp = "failure" /\ gateFrom = "closed" /\ gateCnt = 2
  /\ circuitState = "open" /\ failureCount = 3 /\ lastFailureTime > 0

(* C6: while the cooldown has not expired the read loop is at the check   *)
(* or in the cooldown wait (or has returned on cancellation): it makes no *)
(* reconnect attempt, and the circuit is open, not half-open.             *)
C6_NoReconnectBeforeExpiry ==
  now < circuitOpenUntil =>
    /\ circuitState = "open"
    /\ readerPc \in {"check", "wait", "done"}

(* The read loop waits in the cooldown, some of which has passed.         *)
C6_Witness ==
  /\ circuitState = "open" /\ readerPc = "wait"
  /\ lastFailureTime < now /\ now < circuitOpenUntil

(* C7 as stated: while the circuit is half-open at most one reconnect     *)
(* attempt is made without a successful read or a new cooldown wait.      *)
C7_OneAttemptWhileHalfOpen ==
  circuitState = "half-open" => attempts <= 1

(* C8 as stated: a failure recorded while the circuit is half-open or     *)
(* open leaves it open with circuitOpenUntil = the time of that failure + *)
(* circuitOpenPeriod.                                                     *)
C8_FailureReopens ==
  (gateOp = "failure" /\ gateFrom \in {"half-open", "open"}) =>
    /\ circuitState = "open"
    /\ circuitOpenUntil = lastFailureTime + circuitOpenPeriod

(* C9: gate reset.  After a successful read, whatever the circuit state   *)
(* and the count were, the count is 0 and the circuit is closed.          *)
C9_GateReset ==
  /\ gateOp = "success" => circuitState = "closed" /\ failureCount = 0
  /\ readerPc \in {"dispatch", "lock_tcp", "bc_tcp", "lock_udp", "bc_udp"} =>
       gateOp = "success"

(* The first read after the reconnect in the half-open circuit succeeded. *)
C9_Witness ==
  /\ gateOp = "success" /\ gateFrom = "half-open"
  /\ gateCnt >= failureThreshold
  /\ circuitState = "closed" /\ failureCount = 0

(* C10 as stated: once a first Stop() has returned, a second Stop() runs  *)
(* to its end without panic and without waiting, and changes nothing of   *)
(* the bridge or of its connections.                                      *)
bridgeState == <<sessOpen, connState, wsConn, wsMutex, tcpListener,
                 tcpClients, udpConn, udpClients, ctxDone, wg, gateVars,
                 crashed>>
AfterFirstStop == (stops = 1 /\ mainPc = "stopped") \/ stops >= 2
C10_SecondStopChangesNothing ==
  [][AfterFirstStop => UNCHANGED bridgeState]_vars

(* C3 as stated: with Stop() never called and an upstream that in the end *)
(* accepts connections and delivers messages, every upstream read failure *)
(* is followed by a state in which the bridge holds a live session, has   *)
(* received a message on it and the circuit is closed again.              *)
ReadFailed == readerPc = "err"
Recovered ==
  /\ wsConn \in sessOpen \ sessBroken
  /\ gateOp = "success" /\ circuitState = "closed" /\ failureCount = 0
C3_EventuallyRecovers == ReadFailed ~> Recovered

(* C11 as stated: a call of Stop() eventually returns, whatever the tasks *)
(* of the bridge are doing when it is made.                               *)
StopCalled == mainPc = "stop_ws"
StopReturned == mainPc = "stopped"
C11_StopReturns == StopCalled ~> StopReturned

(* C12: when Stop() has returned, the upstream read loop, the accept      *)
(* loop, every forwarder of a TCP client and the UDP receive loop have    *)
(* exited, and no task runs or is started in any later state.             *)
C12_TasksExited ==
  AfterFirstStop =>
    /\ readerPc \in {"off", "done"}
    /\ acceptPc \in {"off", "done"}
    /\ udpPc \in {"off", "done"}
    /\ \A c \in Conns : hpc[c] \in {"off", "done"}
    /\ wg = 0

(* Stop() has returned after the read loop, the accept loop and the       *)
(* forwarders of two clients, one of which never closed its end, ended.   *)
C12_Witness ==
  /\ mainPc = "stopped" /\ stops >= 1
  /\ readerPc = "done" /\ acceptPc = "done"
  /\ \A c \in Conns : hpc[c] = "done"
  /\ \E c \in Conns : ~peerClosed[c]

(* C13 as stated: when Stop() has returned, no upstream session, no       *)
(* listening socket and no accepted TCP connection is open.               *)
C13_NothingLeftOpen ==
  (mainPc = "stopped" /\ stops >= 1) =>
    /\ sessOpen = {}
    /\ tcpListener # "open" /\ udpConn # "open"
    /\ \A c \in Conns : connState[c] # "open"

(* C14: at every instant at most one upstream session is open, and it is  *)
(* the one b.wsConn refers to; while a reconnect dials, the prior session *)
(* is already closed.                                                     *)
C14_OneLiveSession ==
  /\ Cardinality(sessOpen) <= 1
  /\ sessOpen \subseteq {wsConn}
  /\ readerPc = "dial" => sessOpen = {}

(* A reconnect has replaced a session that was still open on the         *)
(* bridge's side by a new one.                                            *)
C14_Witness ==
  /\ wsConn >= 2 /\ sessOpen = {wsConn}
  /\ readerPc = "top" /\ attempts >= 1

(* C15: at most one task is inside an upstream send or inside the         *)
(* reconnect's close-and-replace at any time, and that task is the holder *)
(* of wsMutex.                                                            *)
InSend == {c \in Conns : hpc[c] = "send"}
Inside ==
  Cardinality(InSend) + (IF udpPc = "send" THEN 1 ELSE 0)
                      + (IF readerPc = "dial" THEN 1 ELSE 0)
C15_SendsExclusive ==
  /\ Inside <= 1
  /\ (Inside = 1) = (wsMutex # "free")
  /\ InSend # {} => wsMutex = "tcp"
  /\ udpPc = "send" => wsMutex = "udp"
  /\ readerPc = "dial" => wsMutex = "reader"

(* One forwarder is inside its send while the other forwarder, the UDP    *)
(* loop and the reconnect all wait for the mutex.                         *)
C15_Witness ==
  /\ hpc[1] = "send" /\ hpc[2] = "fwd"
  /\ udpPc = "fwd" /\ readerPc = "reconnect"

(* C16: a TCP client whose removal from the registry has completed is in  *)
(* the registry no more, and a broadcast pass that starts after the       *)
(* removal neither lists it nor writes to its connection.                 *)
C16_NoWriteAfterRemoval ==
  /\ \A c \in Conns : hpc[c] = "done" => c \notin Registered
  /\ bcGone \cap bcTcpSnap = {}
  /\ \A c \in bcGone : bcTcpW[c] = <<>>

(* A broadcast pass has written to a registered client after another     *)
(* client had been removed.                                               *)
C16_Witness ==
  /\ bcGone # {} /\ bcTcpSnap # {}
  /\ \E c \in bcTcpSnap : Len(bcTcpW[c]) = 1

(* C17: partial-failure isolation.  When a write of a broadcast pass has  *)
(* failed, every TCP client and every UDP endpoint registered at the pass *)
(* has still been written the message in that pass, and the two steps of  *)
(* a broadcast change no registry and close no connection.                *)
FailedTcp == {c \in Conns : bcTcpW[c] # <<>> /\ ~bcTcpW[c][1][2]}
BroadcastStep == readerPc \in {"bc_tcp", "bc_udp"} /\ readerPc' # readerPc
C17_FailureIsolated ==
  /\ [](FailedTcp # {} =>
          /\ \A c \in bcTcpSnap :
               Len(bcTcpW[c]) = 1 /\ bcTcpW[c][1][1] = bcData
          /\ readerPc \notin {"lock_udp", "bc_udp"} =>
               \A a \in bcUdpSnap :
                 Len(bcUdpW[a]) = 1 /\ bcUdpW[a][1][1] = bcData)
  /\ [][BroadcastStep =>
          UNCHANGED <<tcpClients, udpClients, connState, udpConn>>]_vars

(* In one pass the write to one TCP client failed, the write to the other *)
(* succeeded, a UDP endpoint was written, and the failed client is still  *)
(* registered.                                                            *)
C17_Witness ==
  /\ readerPc = "top" /\ Cardinality(bcTcpSnap) = 2
  /\ \E c \in FailedTcp : c \in Registered
  /\ \E c \in bcTcpSnap : bcTcpW[c][1][2]
  /\ \E a \in bcUdpSnap : Len(bcUdpW[a]) = 1

(* C18 as stated: a TCP client whose data could not be written upstream   *)
(* during an outage, and which has not closed its end, keeps its socket   *)
(* open and stays registered.                                             *)
C18_ClientsSurviveOutage ==
  \A c \in Conns :
    (herr[c] \in {"notconnected", "writeerror"} /\ ~peerClosed[c]) =>
      connState[c] = "open" /\ c \in Registered

(* C19 as stated: a registry entry is removed only by the inbound task of *)
(* the connection it holds, as that task ends; no step removes the entry  *)
(* of another client.                                                     *)
C19_OnlyOwnEntryRemoved ==
  [][\A k \in Keys :
       (tcpClients[k] # NoConn /\ tcpClients'[k] = NoConn) =>
         (hpc[tcpClients[k]] = "del" /\ hpc'[tcpClients[k]] = "done")]_vars

(* C20 as stated: when the receive loop submits a datagram to the         *)
(* upstream, its source address is in the datagram registry and what it   *)
(* submits is the payload of the datagram; a submitted message that the   *)
(* upstream took is that payload.                                         *)
C20_DatagramForwarded ==
  /\ udpPc \in {"fwd", "send"} => (uaddr \in udpClients /\ ubuf = udgram)
  /\ \A i \in 1..Len(udpSent) : \E d \in Datagrams : udpSent[i] = d

(* C21: when Start has returned an error the upstream read loop was not   *)
(* spawned; when the error is the failed connect (no session was ever     *)
(* stored) no listener is bound and no task was spawned.                  *)
C21_StartupFailureFatal ==
  mainPc = "startFailed" =>
    /\ readerPc = "off"
    /\ wsConn = 0 =>
         /\ tcpListener = "nil" /\ udpConn = "nil"
         /\ acceptPc = "off" /\ udpPc = "off" /\ wg = 0

(* Start has returned the error of a failed UDP bind, after the TCP       *)
(* listener was bound.                                                    *)
C21_Witness ==
  mainPc = "startFailed" /\ wsConn # 0 /\ tcpListener = "open"
    /\ udpConn = "nil"

(* The relay state a write to the upstream has no business changing.      *)
RelayState ==
  <<wsConn, sessOpen, tcpListener, tcpClients, udpConn, udpClients,
    connState, ctxDone, wg, gateVars>>

SessionActive == wsConn \in sessOpen /\ wsConn \notin sessBroken

(* C22: a call of writeToWebSocket made while b.wsConn is nil returns the *)
(* not-connected error, sends nothing and leaves the relay state as it    *)
(* was; a call made with a live session sends exactly one message, which  *)
(* is the whole payload the caller read.  Both callers are covered: the   *)
(* TCP handler and the UDP loop.                                          *)
C22_WriteFrame ==
  [][/\ \A c \in Conns :
          (hpc[c] = "send" /\ hpc'[c] # "send") =>
            /\ wsConn = 0 =>
                 /\ herr'[c] = "notconnected"
                 /\ UNCHANGED <<sentLog, udpSent, RelayState>>
            /\ SessionActive =>
                 /\ herr'[c] = "ok"
                 /\ sentLog' = [sentLog EXCEPT ![c] =
                                  Append(@, readLog[c][Len(readLog[c])])]
                 /\ UNCHANGED <<udpSent, RelayState>>
     /\ (udpPc = "send" /\ udpPc' # "send") =>
          /\ wsConn = 0 => UNCHANGED <<sentLog, udpSent, RelayState>>
          /\ SessionActive =>
               /\ udpSent' = Append(udpSent, udgram)
               /\ UNCHANGED <<sentLog, RelayState>>]_vars

(* A TCP handler's write has returned the not-connected error and a       *)
(* datagram has been sent upstream.                                       *)
C22_Witness ==
  (\E c \in Conns : herr[c] = "notconnected") /\ udpSent # <<>>

(* C23: a text message the read loop has received never reaches the       *)
(* broadcast; from the dispatch the loop goes back to its top and no      *)
(* write to a TCP client or a UDP endpoint is made for it.                *)
C23_NonBinaryDiscarded ==
  /\ [](readerPc \in {"lock_tcp", "bc_tcp", "lock_udp", "bc_udp"} =>
         rtype = "binary")
  /\ [][(readerPc = "dispatch" /\ rtype # "binary") =>
          (readerPc' \in {"dispatch", "top"} /\ UNCHANGED bcHist)]_vars

(* A text message has been discarded while a TCP client and a UDP         *)
(* endpoint were registered.                                              *)
C23_Witness ==
  /\ rtype = "text" /\ readerPc = "top" /\ gateOp = "success"
  /\ Registered # {} /\ udpClients # {}

(* C24 as stated: with no --tcp flag and no AIRCAST_TCP_LISTEN value the  *)
(* TCP listen address handed to the relay is 127.0.0.1:14550.             *)
C24_DefaultTcpAddress ==
  (cliPc # "start" /\ flagTcp = "" /\ envTcp = "") =>
    tcpListen = "127.0.0.1:14550"

(* C25 as stated: once main is past the authentication, a stored token    *)
(* was reused only if it was there, not yet within 5 minutes of its       *)
(* expiry and of the configured API URL; with --login the authentication  *)
(* ran; and when it ran the token file holds the new token, expiring 24   *)
(* hours after a moment of this run.                                      *)
C25_TokenReuse ==
  cliPc = "device" =>
    /\ ~authRan =>
         /\ storedToken # NoToken
         /\ storedToken.api = cfgApi
         /\ \E t \in 0..cliNow : t < storedToken.exp - tokenBuffer
    /\ doLogin => authRan
    /\ authRan =>
         /\ tokenFile.tok = "new" /\ tokenFile.api = cfgApi
         /\ \E t \in 0..cliNow : tokenFile.exp = t + tokenLifetime

(* C26: every change of circuitState is closed -> open with the failure   *)
(* count at the threshold, open -> half-open with the cooldown expired,   *)
(* half-open -> closed on a successful read, or half-open -> open.        *)
C26_GateTransitions ==
  [][circuitState' # circuitState =>
       \/ /\ circuitState = "closed" /\ circuitState' = "open"
          /\ failureCount' >= failureThreshold
       \/ /\ circuitState = "open" /\ circuitState' = "half-open"
          /\ now >= circuitOpenUntil
       \/ /\ circuitState = "half-open" /\ circuitState' = "closed"
          /\ gateOp' = "success"
       \/ /\ circuitState = "half-open" /\ circuitState' = "open"]_vars

(* C27: no step of reconnectWebSocket, whether the dial succeeds or       *)
(* fails, changes failureCount or circuitState; failureCount goes down    *)
(* only in resetCircuit, after a successful read.                         *)
C27_ReconnectKeepsGate ==
  [][/\ readerPc \in {"reconnect", "dial"} =>
          UNCHANGED <<failureCount, circuitState>>
     /\ failureCount' < failureCount =>
          (readerPc = "got" /\ gateOp' = "success")]_vars

(* A reconnect has succeeded after two failures and the loop is about to  *)
(* read from the new session: the count is still 2.                       *)
C27_Witness ==
  /\ readerPc = "read" /\ attempts >= 1 /\ SessionActive
  /\ failureCount = 2 /\ circuitState = "closed"

(* C28 as stated: Stop() never sits between its test of b.wsConn and its  *)
(* use of it while reconnectWebSocket holds wsMutex and is swapping the   *)
(* connection, and no task ever calls through an absent handle.           *)
C28_SessionRefGuarded ==
  /\ mainPc = "stop_ws_close" => wsMutex # "reader"
  /\ ~crashed

(* The number of tasks inside a critical section of the TCP registry:    *)
(* the add, a remove, the broadcast iteration, the close-all iteration of *)
(* Stop().                                                                *)
InTcpSection ==
  (IF acceptPc = "register" THEN 1 ELSE 0)
    + Cardinality({c \in Conns : hpc[c] = "del"})
    + (IF readerPc = "bc_tcp" THEN 1 ELSE 0)
    + (IF mainPc = "stop_clients" THEN 1 ELSE 0)

(* The number of tasks inside a critical section of the UDP registry: the *)
(* add and the broadcast iteration.                                       *)
InUdpSection ==
  (IF udpPc = "track" THEN 1 ELSE 0)
    + (IF readerPc = "bc_udp" /\ udpConn # "nil" THEN 1 ELSE 0)

(* C29: at most one task is inside a critical section of the TCP          *)
(* registry and at most one inside one of the UDP registry; each registry *)
(* lock is held exactly while a task is inside; the read loop, the only   *)
(* task that uses both locks, never holds both.                           *)
C29_RegistrySections ==
  /\ InTcpSection <= 1
  /\ InUdpSection <= 1
  /\ tcpMutex = "free" <=> InTcpSection = 0
  /\ udpMutex = "free" <=> InUdpSection = 0
  /\ ~(tcpMutex = "read" /\ udpMutex = "read")

(* Stop() is inside its close-all iteration while a handler waits to      *)
(* remove its entry and the read loop waits to broadcast.                 *)
C29_Witness ==
  /\ mainPc = "stop_clients" /\ tcpMutex = "write"
  /\ \E c \in Conns : hpc[c] = "lock_del"
  /\ readerPc = "lock_tcp"

(* C30 as stated: every accepted connection whose handler has been        *)
(* started and has not ended is in tcpClients under its key, mapped to    *)
(* that same connection.                                                  *)
C30_ClientHasEntry ==
  \A c \in Conns :
    hpc[c] \in {"top", "read", "fwd", "send", "close", "lock_del", "del"} =>
      tcpClients[connKey[c]] = c

(* C31: no step removes an address from udpClients, and the address of    *)
(* the datagram being forwarded is registered.                            *)
C31_EndpointsOnlyGrow ==
  /\ [](udpPc \in {"fwd", "send"} => uaddr \in udpClients)
  /\ [][udpClients \subseteq udpClients']_vars

(* Both addresses are registered, the second added after the first; the   *)
(* session has been dropped and re-established since.                     *)
C31_Witness ==
  /\ udpClients = Addrs /\ attempts >= 1 /\ readerPc = "read"
  /\ SessionActive

(* The chunks of a log, one after the other.                              *)
RECURSIVE Flatten(_)
Flatten(log) ==
  IF log = <<>> THEN <<>> ELSE log[1] \o Flatten(SubSeq(log, 2, Len(log)))

(* C32: the bytes of a TCP client that reached the upstream are the bytes *)
(* it sent, in their order and without a gap (each client sends 1, 2,     *)
(* ...); the messages written to a TCP client are in the order the        *)
(* upstream sent them (its payloads count down).                          *)
C32_Fifo ==
  \A c \in Conns :
    /\ Flatten(sentLog[c]) = [i \in 1..Len(Flatten(sentLog[c])) |-> i]
    /\ \A i, j \in 1..Len(bcLog[c]) :
         i < j => bcLog[c][i][1] > bcLog[c][j][1]

(* One client has had both messages and has sent two bytes upstream in    *)
(* two chunks, while the other client has sent its bytes too.             *)
C32_Witness ==
  \E c, d \in Conns :
    /\ c # d /\ Len(bcLog[c]) = 2 /\ Len(sentLog[c]) = 2
    /\ sentLog[d] # <<>>

(* C33 as stated: what the receive loop holds of a datagram, and submits  *)
(* to the upstream, has the length and the bytes of the datagram's        *)
(* payload, whatever that length.                                         *)
C33_DatagramOneToOne ==
  udpPc \in {"lock_track", "track", "fwd", "send"} =>
    /\ Len(ubuf) = Len(udgram)
    /\ \A i \in 1..Len(udgram) : ubuf[i] = udgram[i]

(* C34: the circuit breaker's fields change only in a step of the read    *)
(* loop's failure handling (recordFailure, the end of the cooldown wait)  *)
(* or success handling (resetCircuit); such a step leaves the other       *)
(* goroutines where they are, and no step of Stop(), the accept loop, a   *)
(* client handler, the UDP loop, a broadcast, a write or a reconnect      *)
(* changes them.                                                          *)
C34_GateFrame ==
  [][gateVars' # gateVars =>
       /\ readerPc \in {"recfail", "wait", "got"}
       /\ readerPc' \in {"check", "reconnect", "dispatch"}
       /\ UNCHANGED <<mainVars, tcpTaskVars, udpTaskVars, wsConn, sessOpen,
                      tcpClients, udpClients>>]_vars

(* The gate has recorded a failure, a reconnect has run, a client's bytes *)
(* went upstream and Stop() was called.                                   *)
C34_Witness ==
  /\ failureCount > 0 /\ attempts >= 1 /\ StopCalled
  /\ \E c \in Conns : sentLog[c] # <<>>

(* C35: the circuit state and the failure counter agree in every state:   *)
(* closed with fewer failures than the threshold, open or half-open with  *)
(* at least the threshold.                                                *)
C35_GateAgrees ==
  /\ circuitState \in {"closed", "open", "half-open"}
  /\ circuitState = "closed" => failureCount < failureThreshold
  /\ circuitState \in {"open", "half-open"} =>
       failureCount >= failureThreshold

(* A failure was recorded in the half-open state, after the cooldown.     *)
C35_Witness ==
  /\ circuitState = "half-open" /\ failureCount > failureThreshold
  /\ gateOp = "failure"

(* The goroutine that holds each lock can take its next step, the one     *)
(* that ends in the unlock, without any other goroutine moving.           *)
HolderCanRelease ==
  /\ wsMutex = "reader" => ENABLED (RDialOk \/ RDialFail)
  /\ wsMutex = "tcp" => \E c \in Conns : ENABLED HForward(c)
  /\ wsMutex = "udp" => ENABLED UForward
  /\ tcpMutex = "write" =>
       ENABLED (ARegister \/ StopClients \/ \E c \in Conns : HDelete(c))
  /\ tcpMutex = "read" => ENABLED RBroadcastTCP
  /\ udpMutex = "write" => ENABLED UTrack
  /\ udpMutex = "read" => ENABLED RBroadcastUDP

(* A goroutine that waits for one of the three locks holds none of them.  *)
NoHoldAndWait ==
  /\ readerPc \in {"recfail", "reconnect", "got", "lock_tcp", "lock_udp"} =>
       wsMutex # "reader" /\ tcpMutex # "read" /\ udpMutex # "read"
  /\ udpPc \in {"lock_track", "fwd"} =>
       wsMutex # "udp" /\ udpMutex # "write"
  /\ \A c \in Conns : hpc[c] \in {"fwd", "lock_del"} =>
       /\ wsMutex = "tcp" => \E d \in Conns \ {c} : hpc[d] = "send"
       /\ tcpMutex = "write" =>
            \/ acceptPc = "register" \/ mainPc = "stop_clients"
            \/ \E d \in Conns \ {c} : hpc[d] = "del"
  /\ acceptPc = "lock_reg" /\ tcpMutex = "write" =>
       mainPc = "stop_clients" \/ \E d \in Conns : hpc[d] = "del"
  /\ mainPc = "lock_clients" /\ tcpMutex = "write" =>
       acceptPc = "register" \/ \E d \in Conns : hpc[d] = "del"

PollReturnedToken == pollPc = "done" /\ pollErr = NoErr

(* The step is a token request.                                           *)
PollRequested == pollCount' # pollCount

(* C37: pollForToken returns a token only when the response just read    *)
(* carries a non-empty access token and no error code. A token request    *)
(* answered with authorization_pending, or failing in the transport or    *)
(* the parsing, leaves the run polling with its interval; one answered    *)
(* with slow_down leaves it polling with the interval raised by 5         *)
(* seconds; one answered with access_denied, expired_token or any other   *)
(* error code ends it with an error. No request is made at a tick after   *)
(* the expiry time: the run ends with an error. The run ends by           *)
(* cancellation with an error, no run returns a token once its context    *)
(* is cancelled, and a cancelled run that is waiting can return.          *)
C37_PollOutcome ==
  /\ [](PollReturnedToken =>
          /\ lastResp.kind = "json" /\ lastResp.error = ""
          /\ lastResp.token # "" /\ pollToken = lastResp.token)
  /\ [](pollPc = "select" /\ pollCancelled => ENABLED PollCtxDone)
  /\ [][PollRequested =>
          LET r == lastResp'
          IN /\ ~After(pollNow, expires)
             /\ (r.kind \in {"transport", "parse"}
                   \/ r.error = "authorization_pending") =>
                  pollPc' = "select" /\ interval' = interval
             /\ r.error = "slow_down" =>
                  pollPc' = "select" /\ interval' = interval + slowDown
             /\ r.error \in ErrorCodes
                             \ {"authorization_pending", "slow_down"} =>
                  /\ pollPc' = "done" /\ pollToken' = ""
                  /\ pollErr'.type = "final"]_vars
  /\ [][pollPc = "select" /\ pollPc' = "done" /\ ~PollRequested =>
          /\ pollToken' = "" /\ pollErr'.type = "final"
          /\ pollCancelled \/ (TickReady /\ After(pollNow, expires))]_vars
  /\ [][pollPc = "select" /\ TickReady /\ After(pollNow, expires)
          /\ pollPc' # pollPc =>
          pollPc' = "done" /\ pollErr'.type = "final"]_vars
  /\ [][pollCancelled /\ pollPc' = "done" /\ pollPc # "done" =>
          pollErr'.type = "final" /\ pollToken' = ""]_vars

(* A run that was told to slow down and returned the token of a later     *)
(* request.                                                               *)
C37_Witness ==
  /\ PollReturnedToken /\ pollToken = "tok" /\ pollCount >= 2
  /\ interval = deviceResp.Interval + slowDown

(* C38 as stated: the interval is strictly positive when the ticker is    *)
(* created and while it runs, for every device code response, and never   *)
(* decreases during a run.                                                *)
C38_IntervalPositive ==
  /\ [](pollPc \in {"newticker", "select"} => interval > 0)
  /\ [][(pollPc \in {"newticker", "select"}) =>
          interval' >= interval]_vars

(* C39: on a list of at least one device the cursor stays between 0 and   *)
(* len(devices)-1 after any sequence of key messages; a done picker has a *)
(* selected index between 0 and len(devices)-1; a final model that is not *)
(* done yields an error, an empty list yields an error, and a device      *)
(* returned by PickDevice is an element of the list: the one selected,    *)
(* when the picker chose it. Indexing the list never panics.              *)
C39_PickerInBounds ==
  /\ [](/\ pickPc # "panic"
        /\ Len(devices) >= 1 =>
             pickModel.cursor >= 0 /\ pickModel.cursor <= Len(devices) - 1
        /\ pickModel.done =>
             pickModel.selected >= 0 /\ pickModel.selected < Len(devices)
        /\ Len(devices) = 0 => pickPc \in {"start", "error"}
        /\ pickPc = "returned" =>
             \E i \in 1..Len(devices) : pickResult = devices[i]
        /\ pickPc # "returned" => pickResult = NoDevice)
  /\ [][pickPc = "result" /\ ~pickModel.done => pickPc' = "error"]_vars
  /\ [][pickPc = "result" /\ pickPc' = "returned" =>
          pickResult' = devices[pickModel.selected + 1]]_vars

(* The third device, picked by moving the cursor down twice and pressing  *)
(* enter.                                                                 *)
C39_Witness ==
  /\ Len(devices) >= 3 /\ pickKeys >= 3
  /\ pickPc = "returned" /\ pickModel.done
  /\ pickModel.cursor = 2 /\ pickModel.selected = 2
  /\ pickResult = devices[3]

=============================================================================
